---------------------------- MODULE Spec2Model ----------------------------
(***************************************************************************)
(* Model of the weekly ETF rotation core of ashare-etf-rotator:            *)
(*   app/strategy.py  RiskGate, target_weights                             *)
(*   app/backtest.py  ComputeTarget (no-trade band)                        *)
(*   app/paper.py     run_paper_once                                       *)
(*   app/costs.py     CostModel                                            *)
(* Python floats are modelled as exact rationals [n, d] (d > 0, lowest     *)
(* terms); money is an integer count of 1/MoneyDen currency units.         *)
(***************************************************************************)
EXTENDS Integers, Sequences, FiniteSets, TLC

(***************************************************************************)
(* Exact rational arithmetic standing for float arithmetic.                *)
(***************************************************************************)
Abs(x) == IF x < 0 THEN -x ELSE x

RECURSIVE Gcd(_, _)
Gcd(a, b) == IF b = 0 THEN a ELSE Gcd(b, a % b)

Lcm(a, b) == (a \div Gcd(a, b)) * b

Rat(n, d) ==
    LET s == IF d < 0 THEN -1 ELSE 1
        g == Gcd(Abs(n), Abs(d))
    IN  [n |-> (s * n) \div g, d |-> (s * d) \div g]

RZero == [n |-> 0, d |-> 1]
ROne == [n |-> 1, d |-> 1]
RInt(k) == [n |-> k, d |-> 1]
\* a and b over their common denominator.
ROver(a, b) == a.n * (Lcm(a.d, b.d) \div a.d)
RLt(a, b) == ROver(a, b) < ROver(b, a)
RLeq(a, b) == ROver(a, b) <= ROver(b, a)
RGeq(a, b) == RLeq(b, a)
RSub(a, b) == Rat(ROver(a, b) - ROver(b, a), Lcm(a.d, b.d))
RAdd(a, b) == Rat(ROver(a, b) + ROver(b, a), Lcm(a.d, b.d))
RMul(a, b) ==
    LET g1 == Gcd(Abs(a.n), b.d)
        g2 == Gcd(Abs(b.n), a.d)
    IN  Rat((a.n \div g1) * (b.n \div g2), (a.d \div g2) * (b.d \div g1))
\* a / b for b # 0.
RDiv(a, b) == RMul(a, Rat(b.d, b.n))
RAbs(a) == [n |-> Abs(a.n), d |-> a.d]
\* Mutant: the smaller of the two.
RMin(a, b) == IF RLt(b, a) THEN b ELSE a

RMax(a, b) == IF RLt(a, b) THEN b ELSE a
\* int(np.floor(a)); TLA+'s \div rounds towards minus infinity.
RFloor(a) == a.n \div a.d

(***************************************************************************)
(* app/strategy.py: RiskState and RiskGate.                                *)
(***************************************************************************)
NORMAL == "NORMAL"
DE_RISK == "DE-RISK"
CIRCUIT_COOLDOWN == "CIRCUIT-COOLDOWN"
RiskState == {NORMAL, DE_RISK, CIRCUIT_COOLDOWN}

\* RiskGate(derisk_drawdown, circuit_drawdown, cooldown_weeks): the dataclass
\* with its defaults state = NORMAL, cooldown_left = 0.
RiskGate(derisk, circuit, weeks) ==
    [derisk_drawdown |-> derisk, circuit_drawdown |-> circuit,
     cooldown_weeks |-> weeks, state |-> NORMAL, cooldown_left |-> 0]

\* Mutant: a de-risked gate stays de-risked until the drawdown is fully
\* recovered (hysteresis the code does not have).
next_state_sticky_derisk(self, drawdown) ==
    IF self.state = CIRCUIT_COOLDOWN /\ self.cooldown_left > 0
    THEN CIRCUIT_COOLDOWN
    ELSE IF RGeq(drawdown, self.circuit_drawdown) THEN CIRCUIT_COOLDOWN
    ELSE IF RGeq(drawdown, self.derisk_drawdown) THEN DE_RISK
    ELSE IF self.state = DE_RISK /\ RLt(RZero, drawdown) THEN DE_RISK
    ELSE NORMAL

\* Mutant: strict comparisons against the thresholds.
next_state_strict(self, drawdown) ==
    IF self.state = CIRCUIT_COOLDOWN /\ self.cooldown_left > 0
    THEN CIRCUIT_COOLDOWN
    ELSE IF RLt(self.circuit_drawdown, drawdown) THEN CIRCUIT_COOLDOWN
    ELSE IF RLt(self.derisk_drawdown, drawdown) THEN DE_RISK
    ELSE NORMAL

next_state(self, drawdown) ==
    IF self.state = CIRCUIT_COOLDOWN /\ self.cooldown_left > 0
    THEN CIRCUIT_COOLDOWN
    ELSE IF RGeq(drawdown, self.circuit_drawdown) THEN CIRCUIT_COOLDOWN
    ELSE IF RGeq(drawdown, self.derisk_drawdown) THEN DE_RISK
    ELSE NORMAL

IntMax(a, b) == IF a >= b THEN a ELSE b

\* Mutant: the trip arms one event too few.
on_rebalance_short(self, drawdown) ==
    LET prev == self.state
        new == next_state(self, drawdown)
    IN  IF new = CIRCUIT_COOLDOWN /\ prev # CIRCUIT_COOLDOWN
        THEN [self |-> [self EXCEPT !.cooldown_left = IntMax(self.cooldown_weeks - 2, 0),
                                    !.state = CIRCUIT_COOLDOWN],
              state |-> CIRCUIT_COOLDOWN, changed |-> TRUE]
        ELSE IF prev = CIRCUIT_COOLDOWN /\ self.cooldown_left > 0
        THEN [self |-> [self EXCEPT !.cooldown_left = self.cooldown_left - 1,
                                    !.state = CIRCUIT_COOLDOWN],
              state |-> CIRCUIT_COOLDOWN, changed |-> FALSE]
        ELSE [self |-> [self EXCEPT !.state = new],
              state |-> new, changed |-> (new # prev)]

\* Mutant: the cooldown branch reports the regime as changed.
on_rebalance_cooldown_changed(self, drawdown) ==
    LET prev == self.state
        new == next_state(self, drawdown)
    IN  IF new = CIRCUIT_COOLDOWN /\ prev # CIRCUIT_COOLDOWN
        THEN [self |-> [self EXCEPT !.cooldown_left = IntMax(self.cooldown_weeks - 1, 0),
                                    !.state = CIRCUIT_COOLDOWN],
              state |-> CIRCUIT_COOLDOWN, changed |-> TRUE]
        ELSE IF prev = CIRCUIT_COOLDOWN /\ self.cooldown_left > 0
        THEN [self |-> [self EXCEPT !.cooldown_left = self.cooldown_left - 1,
                                    !.state = CIRCUIT_COOLDOWN],
              state |-> CIRCUIT_COOLDOWN, changed |-> TRUE]
        ELSE [self |-> [self EXCEPT !.state = new],
              state |-> new, changed |-> (new # prev)]

\* Mutant: the trip arms cooldown_weeks instead of cooldown_weeks - 1.
on_rebalance_full_reset(self, drawdown) ==
    LET prev == self.state
        new == next_state(self, drawdown)
    IN  IF new = CIRCUIT_COOLDOWN /\ prev # CIRCUIT_COOLDOWN
        THEN [self |-> [self EXCEPT !.cooldown_left = IntMax(self.cooldown_weeks, 0),
                                    !.state = CIRCUIT_COOLDOWN],
              state |-> CIRCUIT_COOLDOWN, changed |-> TRUE]
        ELSE IF prev = CIRCUIT_COOLDOWN /\ self.cooldown_left > 0
        THEN [self |-> [self EXCEPT !.cooldown_left = self.cooldown_left - 1,
                                    !.state = CIRCUIT_COOLDOWN],
              state |-> CIRCUIT_COOLDOWN, changed |-> FALSE]
        ELSE [self |-> [self EXCEPT !.state = new],
              state |-> new, changed |-> (new # prev)]

\* Mutant: a still-deep drawdown re-arms an expired cooldown.
on_rebalance_rearm(self, drawdown) ==
    LET prev == self.state
        new == next_state(self, drawdown)
    IN  IF new = CIRCUIT_COOLDOWN
           /\ (prev # CIRCUIT_COOLDOWN \/ self.cooldown_left = 0)
        THEN [self |-> [self EXCEPT !.cooldown_left = IntMax(self.cooldown_weeks - 1, 0),
                                    !.state = CIRCUIT_COOLDOWN],
              state |-> CIRCUIT_COOLDOWN, changed |-> TRUE]
        ELSE IF prev = CIRCUIT_COOLDOWN /\ self.cooldown_left > 0
        THEN [self |-> [self EXCEPT !.cooldown_left = self.cooldown_left - 1,
                                    !.state = CIRCUIT_COOLDOWN],
              state |-> CIRCUIT_COOLDOWN, changed |-> FALSE]
        ELSE [self |-> [self EXCEPT !.state = new],
              state |-> new, changed |-> (new # prev)]

\* Mutant: an expired cooldown is left only for NORMAL.
on_rebalance_latched(self, drawdown) ==
    LET prev == self.state
        new == next_state(self, drawdown)
    IN  IF new = CIRCUIT_COOLDOWN /\ prev # CIRCUIT_COOLDOWN
        THEN [self |-> [self EXCEPT !.cooldown_left = IntMax(self.cooldown_weeks - 1, 0),
                                    !.state = CIRCUIT_COOLDOWN],
              state |-> CIRCUIT_COOLDOWN, changed |-> TRUE]
        ELSE IF prev = CIRCUIT_COOLDOWN /\ (self.cooldown_left > 0 \/ new = DE_RISK)
        THEN [self |-> [self EXCEPT !.cooldown_left = IntMax(self.cooldown_left - 1, 0),
                                    !.state = CIRCUIT_COOLDOWN],
              state |-> CIRCUIT_COOLDOWN, changed |-> FALSE]
        ELSE [self |-> [self EXCEPT !.state = new],
              state |-> new, changed |-> (new # prev)]

\* Mutant: a recovered drawdown ends the cooldown before the countdown has.
on_rebalance_early_release(self, drawdown) ==
    LET prev == self.state
        new == next_state(self, drawdown)
    IN  IF new = CIRCUIT_COOLDOWN /\ prev # CIRCUIT_COOLDOWN
        THEN [self |-> [self EXCEPT !.cooldown_left = IntMax(self.cooldown_weeks - 1, 0),
                                    !.state = CIRCUIT_COOLDOWN],
              state |-> CIRCUIT_COOLDOWN, changed |-> TRUE]
        ELSE IF prev = CIRCUIT_COOLDOWN /\ self.cooldown_left > 0
        THEN IF RLt(drawdown, self.derisk_drawdown)
             THEN [self |-> [self EXCEPT !.cooldown_left = self.cooldown_left - 1,
                                         !.state = NORMAL],
                   state |-> NORMAL, changed |-> TRUE]
             ELSE [self |-> [self EXCEPT !.cooldown_left = self.cooldown_left - 1,
                                         !.state = CIRCUIT_COOLDOWN],
                   state |-> CIRCUIT_COOLDOWN, changed |-> FALSE]
        ELSE [self |-> [self EXCEPT !.state = new],
              state |-> new, changed |-> (new # prev)]

\* on_rebalance returns (new_state, changed) and mutates self; the operator
\* gives [self |-> the gate after the call, state |-> ..., changed |-> ...].
on_rebalance(self, drawdown) ==
    LET prev == self.state
        new == next_state(self, drawdown)
    IN  IF new = CIRCUIT_COOLDOWN /\ prev # CIRCUIT_COOLDOWN
        THEN [self |-> [self EXCEPT !.cooldown_left = IntMax(self.cooldown_weeks - 1, 0),
                                    !.state = CIRCUIT_COOLDOWN],
              state |-> CIRCUIT_COOLDOWN, changed |-> TRUE]
        ELSE IF prev = CIRCUIT_COOLDOWN /\ self.cooldown_left > 0
        THEN [self |-> [self EXCEPT !.cooldown_left = self.cooldown_left - 1,
                                    !.state = CIRCUIT_COOLDOWN],
              state |-> CIRCUIT_COOLDOWN, changed |-> FALSE]
        ELSE [self |-> [self EXCEPT !.state = new],
              state |-> new, changed |-> (new # prev)]

(***************************************************************************)
(* Python dicts, which keep insertion order: sequences of <<key, value>>.  *)
(***************************************************************************)
DictKeys(d) == [i \in 1 .. Len(d) |-> d[i][1]]
DictHas(d, k) == \E i \in 1 .. Len(d) : d[i][1] = k
DictGet(d, k, default) ==
    IF DictHas(d, k) THEN d[CHOOSE i \in 1 .. Len(d) : d[i][1] = k][2] ELSE default
\* d[k] = v: an existing key keeps its place, a new key goes last.
DictSet(d, k, v) ==
    IF DictHas(d, k)
    THEN [i \in 1 .. Len(d) |-> IF d[i][1] = k THEN <<k, v>> ELSE d[i]]
    ELSE Append(d, <<k, v>>)

(***************************************************************************)
(* app/strategy.py: target_weights.                                        *)
(***************************************************************************)
target_weights(state, equity_symbol, defensive_symbol, normal_equity_weight, derisk_equity_weight) ==
    IF state = CIRCUIT_COOLDOWN THEN <<<<defensive_symbol, ROne>>>>
    ELSE IF state = DE_RISK
    THEN LET ew == derisk_equity_weight
         IN  DictSet(<<<<equity_symbol, ew>>>>, defensive_symbol, RSub(ROne, ew))
    ELSE <<<<equity_symbol, normal_equity_weight>>>>

(***************************************************************************)
(* The no-trade band of the two drivers.                                   *)
(***************************************************************************)
\* Mutant: a deviation equal to the band is suppressed too.
within_band_inclusive(w, cw, no_trade_band) == RLeq(RAbs(RSub(w, cw)), no_trade_band)

\* abs(w - cw) < no_trade_band
within_band(w, cw, no_trade_band) == RLt(RAbs(RSub(w, cw)), no_trade_band)

\* app/paper.py 176-179: tw is updated in place while a snapshot of its items
\* is walked.
RECURSIVE paper_band_from(_, _, _, _, _)
paper_band_from(tw, items, i, current_weights, no_trade_band) ==
    IF i > Len(items) THEN tw
    ELSE LET s == items[i][1]
             w == items[i][2]
             cw == DictGet(current_weights, s, RZero)
         IN  paper_band_from(
                 IF within_band(w, cw, no_trade_band) THEN DictSet(tw, s, cw) ELSE tw,
                 items, i + 1, current_weights, no_trade_band)

paper_band(tw, current_weights, no_trade_band) ==
    paper_band_from(tw, tw, 1, current_weights, no_trade_band)

\* app/backtest.py 147-154: a new dict adj is built from tw.
RECURSIVE backtest_band_from(_, _, _, _, _)
backtest_band_from(adj, tw, i, pre_weights, no_trade_band) ==
    IF i > Len(tw) THEN adj
    ELSE LET s == tw[i][1]
             w == tw[i][2]
             cw == DictGet(pre_weights, s, RZero)
         IN  backtest_band_from(
                 DictSet(adj, s, IF within_band(w, cw, no_trade_band) THEN cw ELSE w),
                 tw, i + 1, pre_weights, no_trade_band)

backtest_band(tw, pre_weights, no_trade_band) ==
    backtest_band_from(<<>>, tw, 1, pre_weights, no_trade_band)

(***************************************************************************)
(* app/costs.py: CostModel.                                                *)
(***************************************************************************)
CostModel(commission_rate, min_commission, stamp_tax_rate, slippage_bps) ==
    [commission_rate |-> commission_rate, min_commission |-> min_commission,
     stamp_tax_rate |-> stamp_tax_rate, slippage_bps |-> slippage_bps]

\* Mutant: a negative trade_value is charged on its absolute value.
trade_cost_abs(self, t) ==
    IF t.trade_value = RZero THEN RZero
    ELSE LET trade_value == RAbs(t.trade_value)
             commission == RMax(RMul(trade_value, self.commission_rate),
                                self.min_commission)
             stamp_tax == RMul(t.sell_value, self.stamp_tax_rate)
             slippage == RMul(trade_value, RDiv(self.slippage_bps, RInt(10000)))
         IN  RAdd(RAdd(commission, stamp_tax), slippage)

\* The loop body of estimate_for_rebalance: what one trade adds to total.
trade_cost(self, t) ==
    IF RLeq(t.trade_value, RZero) THEN RZero
    ELSE LET commission == RMax(RMul(t.trade_value, self.commission_rate),
                                self.min_commission)
             stamp_tax == RMul(t.sell_value, self.stamp_tax_rate)
             slippage == RMul(t.trade_value, RDiv(self.slippage_bps, RInt(10000)))
         IN  RAdd(RAdd(commission, stamp_tax), slippage)

RECURSIVE estimate_from(_, _, _, _)
estimate_from(self, trades, i, total) ==
    IF i > Len(trades) THEN total
    ELSE estimate_from(self, trades, i + 1, RAdd(total, trade_cost(self, trades[i])))

\* Mutant: the minimum commission is charged once per rebalance, on the
\* summed trade value.
RECURSIVE pooled_from(_, _, _, _)
pooled_from(self, trades, i, acc) ==
    IF i > Len(trades) THEN acc
    ELSE LET t == trades[i]
         IN  pooled_from(self, trades, i + 1,
                IF RLeq(t.trade_value, RZero) THEN acc
                ELSE [value |-> RAdd(acc.value, t.trade_value),
                      rest |-> RAdd(acc.rest,
                          RAdd(RMul(t.sell_value, self.stamp_tax_rate),
                               RMul(t.trade_value,
                                    RDiv(self.slippage_bps, RInt(10000)))))])

estimate_for_rebalance_pooled(self, trades) ==
    LET acc == pooled_from(self, trades, 1, [value |-> RZero, rest |-> RZero])
    IN  IF acc.value = RZero THEN RZero
        ELSE RAdd(RMax(RMul(acc.value, self.commission_rate), self.min_commission),
                  acc.rest)

estimate_for_rebalance(self, trades) == estimate_from(self, trades, 1, RZero)

(***************************************************************************)
(* The price table: a sequence of rows [date, close], dates strictly       *)
(* increasing.  A date is a day number with day 0 a Saturday, so that      *)
(* d \div 7 is the W-FRI period of day d and d % 7 = 6 is a Friday.        *)
(***************************************************************************)
Period(d) == d \div 7
Dates(prices) == [i \in 1 .. Len(prices) |-> prices[i].date]
\* idx.get_loc(d)
Loc(prices, d) == CHOOSE i \in 1 .. Len(prices) : prices[i].date = d

\* core/utils.py first_day_after_week_end.  periods is a PeriodIndex, and
\* PeriodIndex.shift(1) adds one period to every element (it does not move
\* the elements by one position), so prev[i] is the week after periods[i].
first_day_after_week_end(dates) ==
    LET periods == [i \in 1 .. Len(dates) |-> Period(dates[i])]
        prev == [i \in 1 .. Len(dates) |-> periods[i] + 1]
    IN  [i \in 1 .. Len(dates) |-> IF i = 1 THEN FALSE ELSE periods[i] # prev[i]]

(***************************************************************************)
(* app/strategy.py: compute_score and pick_best_equity.  A score is        *)
(* -inf, NaN, or momentum / vol kept as the pair (mom, vol2 = vol squared) *)
(* because vol is a square root.                                           *)
(***************************************************************************)
NegInf == [kind |-> "-inf"]
NaN == [kind |-> "nan"]
Finite(mom, vol2) == [kind |-> "finite", mom |-> mom, vol2 |-> vol2]

\* ser.resample("W-FRI").last(): the last close of every week of the rows.
RECURSIVE weekly_last_from(_, _, _, _)
weekly_last_from(rows, s, i, acc) ==
    IF i > Len(rows) THEN acc
    ELSE weekly_last_from(rows, s, i + 1,
            IF i = Len(rows) \/ Period(rows[i + 1].date) # Period(rows[i].date)
            THEN Append(acc, rows[i].close[s]) ELSE acc)

\* .pct_change().dropna()
pct_change(w) == [i \in 1 .. Len(w) - 1 |-> RSub(Rat(w[i + 1], w[i]), ROne)]

RECURSIVE RSum(_, _)
RSum(xs, i) == IF i > Len(xs) THEN RZero ELSE RAdd(xs[i], RSum(xs, i + 1))

\* The square of Series.std() (ddof = 1) of the last m elements, m >= 2.
variance_tail(xs, m) ==
    LET t == SubSeq(xs, Len(xs) - m + 1, Len(xs))
        mean == RDiv(RSum(t, 1), RInt(m))
        sq == [i \in 1 .. m |-> RMul(RSub(t[i], mean), RSub(t[i], mean))]
    IN  RDiv(RSum(sq, 1), RInt(m - 1))

\* Mutant: a symbol with too little history scores 0.
symbol_score_zero(rows, s, momentum_lookback_days, vol_lookback_weeks, vol_floor) ==
    Finite(RZero, RMul(vol_floor, vol_floor))

\* A close that is NaN: the symbol was not listed yet (a close is positive).
NaNClose == 0
\* px[s].dropna()
dropna(rows, s) == SelectSeq(rows, LAMBDA r : r.close[s] # NaNClose)

symbol_score(rows, s, momentum_lookback_days, vol_lookback_weeks, vol_floor) ==
    LET ser == dropna(rows, s)
    IN
    IF Len(ser) < momentum_lookback_days + 1 THEN NegInf
    ELSE LET mom == RSub(Rat(ser[Len(ser)].close[s],
                             ser[Len(ser) - momentum_lookback_days].close[s]), ROne)
             weekly == pct_change(weekly_last_from(ser, s, 1, <<>>))
         IN  IF Len(weekly) < vol_lookback_weeks THEN NegInf
             \* the std of fewer than two values is NaN, and max(nan, x) is nan
             ELSE IF vol_lookback_weeks < 2 THEN NaN
             ELSE Finite(mom, RMax(variance_tail(weekly, vol_lookback_weeks),
                                   RMul(vol_floor, vol_floor)))

Sign(x) == IF x > 0 THEN 1 ELSE IF x < 0 THEN -1 ELSE 0

\* a > b for two scores that are not NaN.
ScoreGt(a, b) ==
    IF a.kind = "-inf" THEN FALSE
    ELSE IF b.kind = "-inf" THEN TRUE
    ELSE LET sa == Sign(a.mom.n)
             sb == Sign(b.mom.n)
             qa == RMul(RMul(a.mom, a.mom), b.vol2)
             qb == RMul(RMul(b.mom, b.mom), a.vol2)
         IN  IF sa # sb THEN sa > sb
             ELSE IF sa = 0 THEN FALSE
             ELSE IF sa > 0 THEN RLt(qb, qa)
             ELSE RLt(qa, qb)

\* The orders in which a sort may leave n equal keys: entry i comes out
\* before entry j when q[i] < q[j].
TieOrders(n) == {q \in [1 .. n -> 1 .. n] : \A i, j \in 1 .. n : q[i] = q[j] => i = j}
\* sort_values(ascending=False) of a dict of scores: descending, NaN last in
\* insertion order.  The sort runs with the default kind="quicksort", which
\* is not a stable sort: the order of equal scores is left to the numpy
\* build, and quicksort is the order this build leaves them in.  The place
\* of entry i.
SortPlace(scores, i, quicksort) ==
    IF scores[i][2].kind = "nan"
    THEN Cardinality({j \in 1 .. Len(scores) : scores[j][2].kind # "nan" \/ j < i}) + 1
    ELSE Cardinality({j \in 1 .. Len(scores) :
            /\ scores[j][2].kind # "nan"
            /\ \/ ScoreGt(scores[j][2], scores[i][2])
               \/ (quicksort[j] < quicksort[i] /\ ~ScoreGt(scores[i][2], scores[j][2]))}) + 1

sort_values_descending(scores, quicksort) ==
    [p \in 1 .. Len(scores) |->
        scores[CHOOSE i \in 1 .. Len(scores) : SortPlace(scores, i, quicksort) = p]]

RECURSIVE scores_from(_, _, _, _, _, _, _)
scores_from(rows, symbols, i, n, m, vol_floor, acc) ==
    IF i > Len(symbols) THEN acc
    ELSE scores_from(rows, symbols, i + 1, n, m, vol_floor,
            DictSet(acc, symbols[i], symbol_score(rows, symbols[i], n, m, vol_floor)))

compute_score(prices, symbols, signal_date, momentum_lookback_days, vol_lookback_weeks, vol_floor, quicksort) ==
    LET px == SelectSeq(prices, LAMBDA r : r.date <= signal_date)
    IN  sort_values_descending(
            scores_from(px, symbols, 1, momentum_lookback_days,
                        vol_lookback_weeks, vol_floor, <<>>), quicksort)

\* Mutant: the first symbol of the result, whatever its score.
pick_best_equity_first(scores, fallback) ==
    IF Len(scores) = 0 THEN fallback ELSE scores[1][1]

pick_best_equity(scores, fallback) ==
    IF Len(scores) = 0 THEN fallback
    ELSE IF scores[1][2].kind # "finite" THEN fallback
    ELSE scores[1][1]

(***************************************************************************)
(* app/paper.py: PaperAccount and run_paper_once.                          *)
(***************************************************************************)
\* as_of of an account that has not traded yet (dates are positive).
None == 0

PaperAccount_new(initial_capital, gate_state) ==
    [as_of |-> None, cash |-> initial_capital, positions |-> <<>>,
     equity_peak |-> initial_capital, gate |-> gate_state, history |-> <<>>]

RECURSIVE positions_value(_, _, _)
positions_value(positions, close, i) ==
    IF i > Len(positions) THEN RZero
    ELSE RAdd(RInt(positions[i][2] * close[positions[i][1]]),
              positions_value(positions, close, i + 1))

\* _account_value; every close of the table is finite.
account_value(cash, positions, close) == RAdd(cash, positions_value(positions, close, 1))

\* list(dict.fromkeys([*equity_etfs, defensive_etf]))
symbols_of(equity_etfs, defensive_etf) ==
    IF \E i \in 1 .. Len(equity_etfs) : equity_etfs[i] = defensive_etf
    THEN equity_etfs ELSE Append(equity_etfs, defensive_etf)

\* Lines 117-128: the days after as_of up to the signal date are valued with
\* the positions held, skipping dates already in the history.
RECURSIVE backfill_from(_, _, _, _, _)
backfill_from(account, prices, i, signal_dt, existing_dates) ==
    IF i > Len(prices) THEN account
    ELSE LET d == prices[i].date
             v == account_value(account.cash, account.positions, prices[i].close)
         IN  IF d > account.as_of /\ d <= signal_dt /\ d \notin existing_dates
             THEN backfill_from(
                    [account EXCEPT !.history = Append(@, [date |-> d, equity |-> v]),
                                    !.equity_peak = RMax(@, v)],
                    prices, i + 1, signal_dt, existing_dates)
             ELSE backfill_from(account, prices, i + 1, signal_dt, existing_dates)

\* Mutant: no day is backfilled.
backfill_none(account, prices, signal_dt) == account

backfill(account, prices, signal_dt) ==
    IF account.as_of # None
    THEN backfill_from(account, prices, 1, signal_dt,
                       {account.history[i].date : i \in 1 .. Len(account.history)})
    ELSE account

\* Lines 168-173.
RECURSIVE current_weights_from(_, _, _, _, _)
current_weights_from(symbols, i, pre_positions, close, pre_value) ==
    IF i > Len(symbols) THEN <<>>
    ELSE LET s == symbols[i]
             sh == DictGet(pre_positions, s, 0)
             cw == IF sh <= 0 THEN RZero
                   ELSE IF RLt(RZero, pre_value)
                   THEN RDiv(RInt(sh * close[s]), pre_value) ELSE RZero
         IN  <<<<s, cw>>>> \o current_weights_from(symbols, i + 1, pre_positions,
                                                  close, pre_value)

\* Lines 182-191: whole-share targets, then 0 for what is held and untargeted.
RECURSIVE target_shares_from(_, _, _, _, _)
target_shares_from(tw, i, pre_value, close, acc) ==
    IF i > Len(tw) THEN acc
    ELSE LET s == tw[i][1]
             target_value == RMul(pre_value, tw[i][2])
             px == close[s]
         IN  target_shares_from(tw, i + 1, pre_value, close,
                DictSet(acc, s, IF px > 0 THEN RFloor(RDiv(target_value, RInt(px)))
                                ELSE 0))

\* Mutant: a holding without a target is left alone.
untargeted_from_kept(pre_positions, i, target_shares) == target_shares

\* Lines 188-191: a symbol held but not targeted gets a target of 0 shares.
RECURSIVE untargeted_from(_, _, _)
untargeted_from(pre_positions, i, target_shares) ==
    IF i > Len(pre_positions) THEN target_shares
    ELSE untargeted_from(pre_positions, i + 1,
            IF DictHas(target_shares, pre_positions[i][1]) THEN target_shares
            ELSE DictSet(target_shares, pre_positions[i][1], 0))

est_cost_for(cost_model, sym, dv, sv) ==
    estimate_for_rebalance(cost_model,
        <<[symbol |-> sym, trade_value |-> dv, sell_value |-> sv]>>)

\* Mutant: the proceeds of a sale are credited gross; the cost is recorded
\* and not paid.
RECURSIVE sell_from_gross(_, _, _, _, _, _)
sell_from_gross(st, target_shares, i, pre_positions, close, cost_model) ==
    IF i > Len(target_shares) THEN st
    ELSE LET s == target_shares[i][1]
             tgt == target_shares[i][2]
             cur == DictGet(st.positions, s, DictGet(pre_positions, s, 0))
             delta == tgt - cur
             px == close[s]
             sell_shares == -delta
             sell_value == RInt(sell_shares * px)
             cost == est_cost_for(cost_model, s, sell_value, sell_value)
         IN  IF delta >= 0 \/ px <= 0
             THEN sell_from_gross(st, target_shares, i + 1, pre_positions, close,
                                  cost_model)
             ELSE sell_from_gross(
                    [cash |-> RAdd(st.cash, sell_value),
                     positions |-> DictSet(st.positions, s, cur - sell_shares),
                     cost_by_symbol |-> DictSet(st.cost_by_symbol, s,
                         RAdd(DictGet(st.cost_by_symbol, s, RZero), cost)),
                     trades |-> Append(st.trades,
                         [symbol |-> s, action |-> "SELL", cur |-> cur, tgt |-> tgt,
                          delta |-> delta, px |-> px, cost |-> cost])],
                    target_shares, i + 1, pre_positions, close, cost_model)

\* Lines 201-216: the SELL loop.  st = [cash, positions, cost_by_symbol, trades].
RECURSIVE sell_from(_, _, _, _, _, _)
sell_from(st, target_shares, i, pre_positions, close, cost_model) ==
    IF i > Len(target_shares) THEN st
    ELSE LET s == target_shares[i][1]
             tgt == target_shares[i][2]
             cur == DictGet(st.positions, s, DictGet(pre_positions, s, 0))
             delta == tgt - cur
             px == close[s]
             sell_shares == -delta
             sell_value == RInt(sell_shares * px)
             cost == est_cost_for(cost_model, s, sell_value, sell_value)
         IN  IF delta >= 0 \/ px <= 0
             THEN sell_from(st, target_shares, i + 1, pre_positions, close, cost_model)
             ELSE sell_from(
                    [cash |-> RAdd(st.cash, RSub(sell_value, cost)),
                     positions |-> DictSet(st.positions, s, cur - sell_shares),
                     cost_by_symbol |-> DictSet(st.cost_by_symbol, s,
                         RAdd(DictGet(st.cost_by_symbol, s, RZero), cost)),
                     trades |-> Append(st.trades,
                         [symbol |-> s, action |-> "SELL", cur |-> cur, tgt |-> tgt,
                          delta |-> delta, px |-> px, cost |-> cost])],
                    target_shares, i + 1, pre_positions, close, cost_model)

\* Lines 219-222: the buy order, the defensive symbol moved to the end.
buy_order(target_shares, defensive_etf) ==
    LET keys == DictKeys(target_shares)
    IN  IF DictHas(target_shares, defensive_etf)
        THEN Append(SelectSeq(keys, LAMBDA k : k # defensive_etf), defensive_etf)
        ELSE keys

\* The cash tolerance of line 240.
CashTolerance == Rat(1, 1000000)

\* Lines 235-246: the largest count from buy downwards that cash covers,
\* 0 when none does.
RECURSIVE affordable(_, _, _, _, _)
affordable(buy, px, cash, cost_model, s) ==
    IF buy <= 0 THEN 0
    ELSE LET buy_value == RInt(buy * px)
             need == RAdd(buy_value, est_cost_for(cost_model, s, buy_value, RZero))
         IN  IF RGeq(cash, RSub(need, CashTolerance)) THEN buy
             ELSE affordable(buy - 1, px, cash, cost_model, s)

\* Lines 224-251: the BUY loop.
RECURSIVE buy_from(_, _, _, _, _, _, _)
buy_from(st, buy_syms, i, target_shares, pre_positions, close, cost_model) ==
    IF i > Len(buy_syms) THEN st
    ELSE LET s == buy_syms[i]
             tgt == DictGet(target_shares, s, 0)
             cur == DictGet(st.positions, s, DictGet(pre_positions, s, 0))
             delta == tgt - cur
             px == close[s]
             buy == affordable(delta, px, st.cash, cost_model, s)
             buy_value == RInt(buy * px)
             cost == est_cost_for(cost_model, s, buy_value, RZero)
         IN  IF delta <= 0 \/ px <= 0
             THEN buy_from(st, buy_syms, i + 1, target_shares, pre_positions,
                           close, cost_model)
             ELSE IF buy > 0
             THEN buy_from(
                    [cash |-> RSub(st.cash, RAdd(buy_value, cost)),
                     positions |-> DictSet(st.positions, s, cur + buy),
                     cost_by_symbol |-> DictSet(st.cost_by_symbol, s,
                         RAdd(DictGet(st.cost_by_symbol, s, RZero), cost)),
                     trades |-> Append(st.trades,
                         [symbol |-> s, action |-> "BUY", cur |-> cur, tgt |-> tgt,
                          delta |-> buy, px |-> px, cost |-> cost])],
                    buy_syms, i + 1, target_shares, pre_positions, close, cost_model)
             ELSE buy_from(
                    [st EXCEPT !.trades = Append(@,
                         [symbol |-> s, action |-> "HOLD", cur |-> cur,
                          tgt |-> DictGet(st.positions, s, cur),
                          delta |-> 0, px |-> px, cost |-> RZero])],
                    buy_syms, i + 1, target_shares, pre_positions, close, cost_model)

\* Mutant: the buys are made before the sells.
execute_buys_first(st, target_shares, buy_syms, pre_positions, close, cost_model) ==
    sell_from(buy_from(st, buy_syms, 1, target_shares, pre_positions, close,
                       cost_model),
              target_shares, 1, pre_positions, close, cost_model)

\* Lines 193-251: the SELL loop, then the BUY loop.
execute(st, target_shares, buy_syms, pre_positions, close, cost_model) ==
    buy_from(sell_from(st, target_shares, 1, pre_positions, close, cost_model),
             buy_syms, 1, target_shares, pre_positions, close, cost_model)

\* Mutant: positions with 0 shares are kept.
keep_zero(positions) == positions

\* Line 254: positions with 0 shares are dropped.
drop_zero(positions) == SelectSeq(positions, LAMBDA p : p[2] # 0)

\* Lines 265-291: one blotter row per symbol, in sorted order.
SortedSymbols == <<"A", "B", "D">>
blotter_rows(symbols, pre_positions, target_shares, positions, current_weights, tw, close, cost_by_symbol, trade_dt, signal_dt, state) ==
    LET in_union(s) == \/ \E i \in 1 .. Len(symbols) : symbols[i] = s
                       \/ DictHas(pre_positions, s)
                       \/ DictHas(target_shares, s)
        union_syms == SelectSeq(SortedSymbols, in_union)
    IN  [i \in 1 .. Len(union_syms) |->
            LET s == union_syms[i]
                cur_sh == DictGet(pre_positions, s, 0)
                tgt_sh == DictGet(positions, s, DictGet(target_shares, s, cur_sh))
                delta == tgt_sh - cur_sh
            IN  [trade_date |-> trade_dt, signal_date |-> signal_dt, symbol |-> s,
                 action |-> IF delta = 0 THEN "HOLD"
                            ELSE IF delta > 0 THEN "BUY" ELSE "SELL",
                 current_weight |-> DictGet(current_weights, s, RZero),
                 target_weight |-> DictGet(tw, s, RZero),
                 target_shares |-> tgt_sh, delta_shares |-> delta,
                 reference_price |-> close[s],
                 estimated_cost |-> DictGet(cost_by_symbol, s, RZero),
                 state |-> state]]

\* Mutant: the rebuilt gate starts its countdown afresh.
rebuild_gate_expired(risk_gate_cfg, persisted) ==
    [RiskGate(risk_gate_cfg.derisk_drawdown, risk_gate_cfg.circuit_drawdown,
              risk_gate_cfg.cooldown_weeks)
       EXCEPT !.state = persisted.state, !.cooldown_left = 0]

\* Lines 130-132: RiskGate(**risk_gate_cfg) with state and cooldown_left taken
\* from the gate record of the account.
rebuild_gate(risk_gate_cfg, persisted) ==
    [RiskGate(risk_gate_cfg.derisk_drawdown, risk_gate_cfg.circuit_drawdown,
              risk_gate_cfg.cooldown_weeks)
       EXCEPT !.state = persisted.state, !.cooldown_left = persisted.cooldown_left]

\* run_paper_once from line 112 on, for a chosen trade date: the account to
\* save and what the run computed on the way.
advance(cfg, prices, loaded, trade_dt, quicksort) ==
    LET symbols == symbols_of(cfg.equity_etfs, cfg.defensive_etf)
        signal_dt == prices[Loc(prices, trade_dt) - 1].date
        pre_positions == loaded.positions
        pre_cash == loaded.cash
        filled == backfill(loaded, prices, signal_dt)
        gate0 == rebuild_gate(cfg.risk_gate, loaded.gate)
        signal_value == account_value(filled.cash, filled.positions,
                                      prices[Loc(prices, signal_dt)].close)
        equity_peak == RMax(filled.equity_peak, signal_value)
        drawdown == IF RLt(RZero, equity_peak)
                    THEN RSub(ROne, RDiv(signal_value, equity_peak)) ELSE RZero
        res == on_rebalance(gate0, drawdown)
        scores == compute_score(prices, cfg.equity_etfs, signal_dt,
                                cfg.momentum_lookback_days, cfg.vol_lookback_weeks,
                                cfg.vol_floor, quicksort)
        winner == pick_best_equity(scores, cfg.equity_etfs[1])
        tw0 == target_weights(res.state, winner, cfg.defensive_etf,
                              cfg.allocation.normal_equity_weight,
                              cfg.allocation.derisk_equity_weight)
        px_trade == prices[Loc(prices, trade_dt)].close
        pre_value == account_value(pre_cash, pre_positions, px_trade)
        current_weights == current_weights_from(symbols, 1, pre_positions,
                                                px_trade, pre_value)
        tw == paper_band(tw0, current_weights, cfg.no_trade_band)
        target_shares == untargeted_from(pre_positions, 1,
                            target_shares_from(tw, 1, pre_value, px_trade, <<>>))
        bought == execute([cash |-> pre_cash, positions |-> filled.positions,
                           cost_by_symbol |-> <<>>, trades |-> <<>>],
                          target_shares, buy_order(target_shares, cfg.defensive_etf),
                          pre_positions, px_trade, cfg.cost_model)
        positions == drop_zero(bought.positions)
        post_value == account_value(bought.cash, positions, px_trade)
    IN  [account |->
            [as_of |-> trade_dt, cash |-> bought.cash, positions |-> positions,
             equity_peak |-> RMax(equity_peak, post_value),
             gate |-> [state |-> res.self.state,
                       cooldown_left |-> res.self.cooldown_left],
             history |-> Append(filled.history,
                                [date |-> trade_dt, equity |-> post_value])],
         trade_dt |-> trade_dt, signal_dt |-> signal_dt,
         drawdown |-> drawdown, state |-> res.state, changed |-> res.changed,
         winner |-> winner, tw0 |-> tw0, tw |-> tw,
         current_weights |-> current_weights, pre_value |-> pre_value,
         target_shares |-> target_shares, trades |-> bought.trades,
         blotter |-> blotter_rows(symbols, pre_positions, target_shares, positions,
                                  current_weights, tw, px_trade,
                                  bought.cost_by_symbol, trade_dt, signal_dt,
                                  res.self.state)]

\* The rebalance dates of the price table: the dates first_day_after_week_end
\* flags.
rebalance_dates_of(prices) ==
    LET dates == Dates(prices)
        rebalance_flag == first_day_after_week_end(dates)
    IN  SelectSeq(dates, LAMBDA d : rebalance_flag[Loc(prices, d)])

\* Mutant: the date already processed is a candidate again.
candidates_inclusive(rebalance_dates, as_of) ==
    IF as_of # None THEN SelectSeq(rebalance_dates, LAMBDA d : d >= as_of)
    ELSE rebalance_dates

\* Mutant: with no date left, the last rebalance date is executed again.
candidates_or_last(rebalance_dates, as_of) ==
    LET later == SelectSeq(rebalance_dates, LAMBDA d : d > as_of)
    IN  IF as_of = None THEN rebalance_dates
        ELSE IF Len(later) = 0 /\ Len(rebalance_dates) > 0
        THEN <<rebalance_dates[Len(rebalance_dates)]>>
        ELSE later

\* The rebalance dates still to execute: those after as_of, all of them for
\* an account that has none.
candidates(rebalance_dates, as_of) ==
    IF as_of # None THEN SelectSeq(rebalance_dates, LAMBDA d : d > as_of)
    ELSE rebalance_dates

\* Mutant: a missing price file is not noticed.
load_prices_lenient(market_dir, symbols) ==
    [raised |-> "none", prices |-> market_dir.prices]

\* _load_prices: FileNotFoundError when a symbol has no price file.
load_prices(market_dir, symbols) ==
    IF \E i \in 1 .. Len(symbols) : symbols[i] \in market_dir.absent
    THEN [raised |-> "FileNotFoundError"]
    ELSE [raised |-> "none", prices |-> market_dir.prices]

\* run_paper_once.  raised is the exception that leaves the function ("none"
\* when it returns); outcome names the three raise statements, else it is
\* "advanced" and run holds the fields of advance.  file is the account file
\* ([exists |-> FALSE] when there is none).
run_paper_once(cfg, market_dir, file, quicksort) ==
    LET got == load_prices(market_dir,
                           symbols_of(cfg.equity_etfs, cfg.defensive_etf))
        prices == got.prices
        rebalance_dates == rebalance_dates_of(prices)
        loaded == IF file.exists THEN file.account
                  ELSE PaperAccount_new(cfg.initial_capital,
                                        [state |-> NORMAL, cooldown_left |-> 0])
        cand == candidates(rebalance_dates, loaded.as_of)
    IN  IF got.raised # "none"
        THEN [outcome |-> "missing_data", raised |-> got.raised]
        ELSE IF Len(rebalance_dates) = 0
        THEN [outcome |-> "no_rebalance_dates", raised |-> "RuntimeError"]
        ELSE IF Len(cand) = 0
        THEN [outcome |-> "up_to_date", raised |-> "RuntimeError"]
        ELSE [outcome |-> "advanced", raised |-> "none", loaded |-> loaded,
              run |-> advance(cfg, prices, loaded, cand[1], quicksort)]

(***************************************************************************)
(* app/cli.py cmd_plan_weekly and backend/main.py _task_plan_weekly, which *)
(* hold the same code.                                                     *)
(***************************************************************************)
\* The plan computed from the account file and the latest close: the rows of
\* the plan file, and the gate and peak the computation ended with.
weekly_plan(cfg, market_dir, file, quicksort) ==
    LET symbols == symbols_of(cfg.equity_etfs, cfg.defensive_etf)
        account == IF file.exists THEN file.account
                   ELSE PaperAccount_new(cfg.initial_capital,
                                         [state |-> NORMAL, cooldown_left |-> 0])
        got == load_prices(market_dir, symbols)
        prices == got.prices
        signal_dt == prices[Len(prices)].date
        px_signal == prices[Len(prices)].close
        gate0 == [RiskGate(cfg.risk_gate.derisk_drawdown,
                           cfg.risk_gate.circuit_drawdown,
                           cfg.risk_gate.cooldown_weeks)
                    EXCEPT !.state = account.gate.state,
                           !.cooldown_left = account.gate.cooldown_left]
        signal_value == account_value(account.cash, account.positions, px_signal)
        equity_peak == RMax(account.equity_peak, signal_value)
        drawdown == IF RLt(RZero, equity_peak)
                    THEN RSub(ROne, RDiv(signal_value, equity_peak)) ELSE RZero
        res == on_rebalance(gate0, drawdown)
        scores == compute_score(prices, cfg.equity_etfs, signal_dt,
                                cfg.momentum_lookback_days, cfg.vol_lookback_weeks,
                                cfg.vol_floor, quicksort)
        winner == pick_best_equity(scores, cfg.equity_etfs[1])
        tw == target_weights(res.state, winner, cfg.defensive_etf,
                             cfg.allocation.normal_equity_weight,
                             cfg.allocation.derisk_equity_weight)
    IN  IF got.raised # "none" THEN [raised |-> got.raised]
        ELSE [raised |-> "none", signal_dt |-> signal_dt, account |-> account,
              gate |-> [state |-> res.self.state,
                        cooldown_left |-> res.self.cooldown_left],
              equity_peak |-> equity_peak,
              rows |-> [i \in 1 .. Len(symbols) |->
                          [signal_date |-> signal_dt, planned_trade_date |-> "",
                           symbol |-> symbols[i],
                           target_weight |-> DictGet(tw, symbols[i], RZero),
                           reference_price |-> px_signal[symbols[i]],
                           state |-> res.state, winner_equity |-> winner,
                           drawdown |-> drawdown,
                           equity_estimated |-> signal_value]]]

\* Mutant: the gate and the peak of the plan are saved to the account file.
cmd_plan_weekly_saving(cfg, market_dir, file, quicksort) ==
    LET plan == weekly_plan(cfg, market_dir, file, quicksort)
    IN  [plan |-> plan,
         file |-> IF plan.raised # "none" THEN file
                  ELSE [exists |-> TRUE,
                        account |-> [plan.account EXCEPT !.gate = plan.gate,
                                                         !.equity_peak = plan.equity_peak]]]

\* cmd_plan_weekly: the plan that is written and the account file it leaves.
cmd_plan_weekly(cfg, market_dir, file, quicksort) ==
    [plan |-> weekly_plan(cfg, market_dir, file, quicksort), file |-> file]

(***************************************************************************)
(* app/backtest.py: run_bt_backtest, one trading day of the bt strategy at *)
(* a time.  Of the bt library the model keeps this much: a strategy has a  *)
(* capital and a whole number of shares per child, its value is the        *)
(* capital plus the shares at the day's close, the algos of the stack run  *)
(* in order until one returns False, Rebalance trades at the day's close   *)
(* without commission, and adjust moves the capital.                       *)
(***************************************************************************)
\* bt.Strategy before the first day.  perm is target.perm (peak is <<>>
\* while the key is missing); signals is a ghost: the days on which
\* RunWeeklyAfterFriday returned True, with the signal date it set.
Strategy_new(initial_capital, risk_gate) ==
    [done |-> 0, capital |-> initial_capital, children |-> <<>>,
     perm |-> [equity_by_date |-> <<>>, peak_by_date |-> <<>>, peak |-> <<>>,
               rebalance_records |-> <<>>],
     gate |-> risk_gate, signals |-> <<>>]

\* target.value
target_value(capital, children, close) ==
    RAdd(capital, positions_value(children, close, 1))

\* child.value, 0 for a child that was never traded.
child_value(children, s, close) == RInt(DictGet(children, s, 0) * close[s])

\* DailyRecorder.__call__
DailyRecorder(perm, d, v) ==
    LET prev_peak == IF perm.peak = <<>> THEN v ELSE perm.peak[1]
        peak == RMax(prev_peak, v)
    IN  [perm EXCEPT !.equity_by_date = DictSet(@, d, v),
                     !.peak = <<peak>>,
                     !.peak_by_date = DictSet(@, d, peak)]

\* RunWeeklyAfterFriday.__call__ on day now: whether the stack goes on, and
\* the signal date.
RunWeeklyAfterFriday(prices, now) ==
    LET i == Loc(prices, now)
        rebalance_flag == first_day_after_week_end(Dates(prices))
    IN  IF i <= 1 THEN [ok |-> FALSE]
        ELSE IF ~rebalance_flag[i] THEN [ok |-> FALSE]
        ELSE [ok |-> TRUE, signal_date |-> prices[i - 1].date]

\* Mutant: the drawdown compares the value of the trade date with the peak
\* of the signal date.
ComputeTarget_today(cfg, prices, st, signal_date, close, quicksort) ==
    LET symbols == symbols_of(cfg.equity_etfs, cfg.defensive_etf)
        value == target_value(st.capital, st.children, close)
        signal_value == value
        peak_value == DictGet(st.perm.peak_by_date, signal_date,
                              IF st.perm.peak = <<>> THEN signal_value
                              ELSE st.perm.peak[1])
        drawdown == IF RLt(RZero, peak_value)
                    THEN RSub(ROne, RDiv(signal_value, peak_value)) ELSE RZero
        res == on_rebalance(st.gate, drawdown)
        scores == compute_score(prices, cfg.equity_etfs, signal_date,
                                cfg.momentum_lookback_days, cfg.vol_lookback_weeks,
                                cfg.vol_floor, quicksort)
        winner == pick_best_equity(scores, cfg.equity_etfs[1])
        tw == target_weights(res.state, winner, cfg.defensive_etf,
                             cfg.allocation.normal_equity_weight,
                             cfg.allocation.derisk_equity_weight)
        pre_weights == [i \in 1 .. Len(symbols) |->
                          <<symbols[i],
                            IF RLt(RZero, value)
                            THEN RDiv(child_value(st.children, symbols[i], close), value)
                            ELSE RZero>>]
    IN  [gate |-> res.self,
         temp |-> [signal_date |-> signal_date,
                   weights |-> backtest_band(tw, pre_weights, cfg.no_trade_band),
                   state |-> res.state, winner |-> winner, drawdown |-> drawdown,
                   signal_value |-> signal_value, peak_value |-> peak_value,
                   pre_weights |-> pre_weights, pre_value |-> value]]

\* ComputeTarget.__call__: the gate after on_rebalance and target.temp.
ComputeTarget(cfg, prices, st, signal_date, close, quicksort) ==
    LET symbols == symbols_of(cfg.equity_etfs, cfg.defensive_etf)
        value == target_value(st.capital, st.children, close)
        signal_value == DictGet(st.perm.equity_by_date, signal_date, value)
        peak_value == DictGet(st.perm.peak_by_date, signal_date,
                              IF st.perm.peak = <<>> THEN signal_value
                              ELSE st.perm.peak[1])
        drawdown == IF RLt(RZero, peak_value)
                    THEN RSub(ROne, RDiv(signal_value, peak_value)) ELSE RZero
        res == on_rebalance(st.gate, drawdown)
        scores == compute_score(prices, cfg.equity_etfs, signal_date,
                                cfg.momentum_lookback_days, cfg.vol_lookback_weeks,
                                cfg.vol_floor, quicksort)
        winner == pick_best_equity(scores, cfg.equity_etfs[1])
        tw == target_weights(res.state, winner, cfg.defensive_etf,
                             cfg.allocation.normal_equity_weight,
                             cfg.allocation.derisk_equity_weight)
        pre_weights == [i \in 1 .. Len(symbols) |->
                          <<symbols[i],
                            IF RLt(RZero, value)
                            THEN RDiv(child_value(st.children, symbols[i], close), value)
                            ELSE RZero>>]
    IN  [gate |-> res.self,
         temp |-> [signal_date |-> signal_date,
                   weights |-> backtest_band(tw, pre_weights, cfg.no_trade_band),
                   state |-> res.state, winner |-> winner, drawdown |-> drawdown,
                   signal_value |-> signal_value, peak_value |-> peak_value,
                   pre_weights |-> pre_weights, pre_value |-> value]]

\* bt SecurityBase.allocate with integer positions: the shares an amount
\* trades, rounded down for a long position or a purchase, up otherwise.
allocate_shares(position, amount, price) ==
    LET q == RDiv(amount, RInt(price))
    IN  IF position > 0 \/ (position = 0 /\ RLt(RZero, amount))
        THEN RFloor(q)
        ELSE 0 - RFloor([n |-> 0 - q.n, d |-> q.d])

\* bt.algos.Rebalance, first loop: the children without a target are closed.
\* st = [capital, children].
RECURSIVE close_untargeted(_, _, _, _)
close_untargeted(st, i, targets, close) ==
    IF i > Len(st.children) THEN st
    ELSE LET s == st.children[i][1]
             shares == st.children[i][2]
         IN  close_untargeted(
                 IF DictHas(targets, s) \/ shares = 0 THEN st
                 ELSE [capital |-> RAdd(st.capital, RInt(shares * close[s])),
                       children |-> DictSet(st.children, s, 0)],
                 i + 1, targets, close)

\* bt.algos.Rebalance, second loop: target.rebalance(weight, child, base).
RECURSIVE rebalance_from(_, _, _, _, _)
rebalance_from(st, targets, i, base, close) ==
    IF i > Len(targets) THEN st
    ELSE LET s == targets[i][1]
             w == targets[i][2]
             position == DictGet(st.children, s, 0)
             q == IF w = RZero THEN 0 - position
                  ELSE allocate_shares(position,
                           RSub(RMul(w, base), RInt(position * close[s])), close[s])
         IN  rebalance_from(
                 IF w = RZero /\ ~DictHas(st.children, s) THEN st
                 ELSE [capital |-> RSub(st.capital, RInt(q * close[s])),
                       children |-> DictSet(st.children, s, position + q)],
                 targets, i + 1, base, close)

\* bt.algos.WeighTarget leaves temp["weights"] as ComputeTarget set it, and
\* bt.algos.Rebalance moves the children to these weights of target.value.
Rebalance(capital, children, weights, close) ==
    rebalance_from(
        close_untargeted([capital |-> capital, children |-> children], 1,
                         weights, close),
        weights, 1, target_value(capital, children, close), close)

\* ApplyCosts, lines 179-194: the loop over the symbols.
RECURSIVE trades_from(_, _, _, _, _, _)
trades_from(acc, symbols, i, pre_weights, post_weights, pre_value) ==
    IF i > Len(symbols) THEN acc
    ELSE LET s == symbols[i]
             w0 == DictGet(pre_weights, s, RZero)
             w1 == DictGet(post_weights, s, RZero)
             dw == RAbs(RSub(w1, w0))
             trade_value == RMul(dw, pre_value)
             sell_value == RMul(RMax(RSub(w0, w1), RZero), pre_value)
         IN  trades_from(
                 IF RLeq(dw, RZero) THEN acc
                 ELSE [trades |-> Append(acc.trades,
                                     [symbol |-> s, trade_value |-> trade_value,
                                      sell_value |-> sell_value]),
                       turnover |-> RAdd(acc.turnover, dw),
                       gross_trade_value |-> RAdd(acc.gross_trade_value, trade_value),
                       gross_sell_value |-> RAdd(acc.gross_sell_value, sell_value)],
                 symbols, i + 1, pre_weights, post_weights, pre_value)

\* Mutant: the trackers keep the value from before the costs.
restamp_skipped(perm, now, value) == perm

\* ApplyCosts, lines 201-206: the trackers of the day get the value after
\* the costs.
restamp(perm, now, value) ==
    LET prev_peak == IF perm.peak = <<>> THEN value ELSE perm.peak[1]
        peak == RMax(prev_peak, value)
    IN  [perm EXCEPT !.equity_by_date = DictSet(@, now, value),
                     !.peak = <<peak>>,
                     !.peak_by_date = DictSet(@, now, peak)]

\* Mutant: the ledger holds the last rebalance only.
overwrite_record(records, rec) == <<rec>>

\* perm.setdefault("rebalance_records", []).append(rec)
append_record(records, rec) == Append(records, rec)

\* ApplyCosts.__call__: the capital and perm it leaves.
ApplyCosts(cfg, st, temp, now, close) ==
    LET symbols == symbols_of(cfg.equity_etfs, cfg.defensive_etf)
        pre_weights == temp.pre_weights
        pre_value == temp.pre_value
        total_value == target_value(st.capital, st.children, close)
        post_weights == [i \in 1 .. Len(symbols) |->
                           <<symbols[i],
                             RDiv(child_value(st.children, symbols[i], close),
                                  total_value)>>]
        acc == trades_from([trades |-> <<>>, turnover |-> RZero,
                            gross_trade_value |-> RZero, gross_sell_value |-> RZero],
                           symbols, 1, pre_weights, post_weights, pre_value)
        total_cost == estimate_for_rebalance(cfg.cost_model, acc.trades)
        \* target.adjust(-total_cost)
        capital == IF RLt(RZero, total_cost) THEN RSub(st.capital, total_cost)
                   ELSE st.capital
        value == target_value(capital, st.children, close)
        perm == restamp(st.perm, now, value)
        rec == [trade_date |-> now, signal_date |-> temp.signal_date,
                state |-> temp.state, winner |-> temp.winner,
                drawdown |-> temp.drawdown,
                portfolio_value_pre |-> pre_value,
                portfolio_value_post |-> value,
                turnover_abs_weight |-> acc.turnover,
                turnover_oneway |-> RDiv(acc.turnover, RInt(2)),
                gross_trade_value |-> acc.gross_trade_value,
                gross_sell_value |-> acc.gross_sell_value,
                estimated_cost |-> total_cost]
    IN  IF RLeq(total_value, RZero) THEN [capital |-> st.capital, perm |-> st.perm]
        ELSE [capital |-> capital,
              perm |-> [perm EXCEPT !.rebalance_records = append_record(@, rec)]]

\* The algo stack on the next trading day of the table.  bt.Backtest.run
\* does not run a strategy whose value has fallen below zero.
strategy_run(cfg, prices, st, quicksort) ==
    LET now == prices[st.done + 1].date
        close == prices[st.done + 1].close
        v == target_value(st.capital, st.children, close)
        recorded == [st EXCEPT !.done = @ + 1, !.perm = DailyRecorder(@, now, v)]
        weekly == RunWeeklyAfterFriday(prices, now)
        ct == ComputeTarget(cfg, prices, recorded, weekly.signal_date, close, quicksort)
        rb == Rebalance(recorded.capital, recorded.children, ct.temp.weights, close)
        ac == ApplyCosts(cfg, [recorded EXCEPT !.capital = rb.capital,
                                                !.children = rb.children],
                         ct.temp, now, close)
    IN  IF RLt(v, RZero) THEN [st EXCEPT !.done = @ + 1]
        ELSE IF ~weekly.ok THEN recorded
        ELSE [recorded EXCEPT !.capital = ac.capital, !.children = rb.children,
                              !.perm = ac.perm, !.gate = ct.gate,
                              !.signals = Append(@, [trade_date |-> now,
                                                     signal_date |-> weekly.signal_date])]

(***************************************************************************)
(* Inputs of the risk-gate specification.                                  *)
(***************************************************************************)
\* Largest cooldown_weeks tried; -1 and 0 are tried too (the constructor
\* accepts any integer).
MaxCooldownWeeks == 4
\* Drawdowns and thresholds are given in percent.
Pct(k) == Rat(k, 100)

\* (derisk_drawdown, circuit_drawdown) pairs: the spec's 10%/20% scenario, a
\* pair of equal thresholds, a zero de-risk threshold, and one with
\* circuit < derisk, which RiskGate(**risk_gate_cfg) accepts unchecked.
ThresholdPairs == {<<10, 20>>, <<15, 15>>, <<0, 20>>, <<20, 10>>}
GateDrawdowns == {Pct(k) : k \in {0, 3, 10, 12, 15, 20, 22, 100}}

VARIABLES
    gate,       \* the RiskGate instance of the gate specification
    call,       \* ghost: the last on_rebalance call (entry state, input, result)
    sinceTrip,  \* ghost: calls since the last fresh trip, the trip included (0: none)
    pol,        \* the weight-policy specification: last inputs and results
    cfg,        \* paper trading: the arguments every run_paper_once call gets
    prices,     \* paper trading: the price table _load_prices returns
    file,       \* paper trading: the account file at account_path
    last,       \* ghost: what the last run_paper_once call did
    absent,     \* paper trading: the symbols with no price file in market_dir
    blotter_dir, \* paper trading: the blotter files written, by trade date
    plan_csv,   \* plan-weekly: the weekly plan file written last
    race,       \* two interleaved run_paper_once invocations: their positions
    bt,         \* the backtest: day reached, portfolio, trackers and ledger
    queue       \* the backend task queue: tasks, executor queue and worker

gateVars == <<gate, call, sinceTrip>>
paperVars == <<cfg, prices, file, last, absent, blotter_dir>>
otherVars == <<plan_csv, race, bt, queue>>
vars == <<gate, call, sinceTrip, pol, cfg, prices, file, last, absent, blotter_dir,
          plan_csv, race, bt, queue>>

NoCall == [made |-> FALSE]
PolIdle == [phase |-> "idle"]

GateInit ==
    /\ \E p \in ThresholdPairs, w \in -1 .. MaxCooldownWeeks :
          gate = RiskGate(Pct(p[1]), Pct(p[2]), w)
    /\ call = NoCall
    /\ sinceTrip = 0

\* The gate of a specification that is about something else.
GateUnused ==
    /\ gate = RiskGate(Pct(10), Pct(20), 4)
    /\ call = NoCall
    /\ sinceTrip = 0

FreshTrip(prev, res) == res.state = CIRCUIT_COOLDOWN /\ prev.state # CIRCUIT_COOLDOWN

GateOnRebalance ==
    /\ \E d \in GateDrawdowns :
        LET res == on_rebalance(gate, d)
        IN  /\ gate' = res.self
            /\ call' = [made |-> TRUE, prev |-> gate, drawdown |-> d,
                        state |-> res.state, changed |-> res.changed]
            /\ sinceTrip' = IF FreshTrip(gate, res) THEN 1
                            ELSE IF sinceTrip = 0 THEN 0
                            ELSE IF sinceTrip > MaxCooldownWeeks THEN sinceTrip
                            ELSE sinceTrip + 1
    /\ UNCHANGED <<pol, paperVars, otherVars>>

\* The paper-trading variables of a specification that is about something else.
PaperUnused ==
    /\ cfg = [unused |-> TRUE]
    /\ prices = <<>>
    /\ file = [exists |-> FALSE]
    /\ last = [outcome |-> "none"]
    /\ absent = {}
    /\ blotter_dir = {}

\* The variables of the plan, interleaving, backtest and task-queue specifications in a
\* specification that is about something else.
PlanUnused == plan_csv = [exists |-> FALSE]
RaceUnused == race = [unused |-> TRUE]
BtUnused == bt = [unused |-> TRUE]
QueueUnused == queue = [unused |-> TRUE]
OthersUnused == PlanUnused /\ RaceUnused /\ BtUnused /\ QueueUnused

GateNext == GateOnRebalance
InitGate == GateInit /\ pol = PolIdle /\ PaperUnused /\ OthersUnused
SpecGate == InitGate /\ [][GateNext]_vars
\* The gate of a driver that keeps being run: every week brings a rebalance
\* event, so on_rebalance is called again and again.
SpecGateFair == InitGate /\ [][GateNext]_vars /\ WF_vars(GateOnRebalance)

(***************************************************************************)
(* The weight-policy specification: target_weights and the two no-trade    *)
(* bands as pure functions of enumerated inputs.                           *)
(***************************************************************************)
EquitySymbols == {"A", "B"}
DefensiveSymbol == "D"
\* normal_equity_weight / derisk_equity_weight as configured; the drivers
\* pass float(allocation_cfg[...]) on without any check, 150% included.
WeightChoices == {Pct(k) : k \in {0, 30, 51, 80, 100, 150}}
\* Current weights of the winner and of the defensive symbol, and bands.
CurrentWeightChoices == {Pct(k) : k \in {0, 28, 32, 50, 51, 53, 100}}
BandChoices == {Pct(k) : k \in {0, 2, 5}}

PolicyTargetWeights ==
    /\ \E st \in RiskState, eq \in EquitySymbols,
          nw \in WeightChoices, dw \in WeightChoices :
          pol' = [phase |-> "weights", state |-> st, equity_symbol |-> eq,
                  defensive_symbol |-> DefensiveSymbol,
                  normal_equity_weight |-> nw, derisk_equity_weight |-> dw,
                  tw |-> target_weights(st, eq, DefensiveSymbol, nw, dw)]
    /\ UNCHANGED <<gateVars, paperVars, otherVars>>

PolicyBand ==
    /\ pol.phase = "weights"
    /\ \E cwe \in CurrentWeightChoices, cwd \in CurrentWeightChoices,
          band \in BandChoices :
          LET cur == <<<<"A", IF pol.equity_symbol = "A" THEN cwe ELSE RZero>>,
                       <<"B", IF pol.equity_symbol = "B" THEN cwe ELSE RZero>>,
                       <<DefensiveSymbol, cwd>>>>
          IN  pol' = [phase |-> "band", state |-> pol.state,
                      tw |-> pol.tw, current_weights |-> cur,
                      no_trade_band |-> band,
                      paper |-> paper_band(pol.tw, cur, band),
                      backtest |-> backtest_band(pol.tw, cur, band)]
    /\ UNCHANGED <<gateVars, paperVars, otherVars>>

PolicyNext == PolicyTargetWeights \/ PolicyBand
InitPolicy == GateUnused /\ pol = PolIdle /\ PaperUnused /\ OthersUnused
SpecPolicy == InitPolicy /\ [][PolicyNext]_vars

(***************************************************************************)
(* The cost specification: CostModel.estimate_for_rebalance as a pure      *)
(* function of enumerated cost models and trade lists.                     *)
(***************************************************************************)
\* Trades of a list at most.
MaxTrades == 2

CostModels ==
    { CostModel(Rat(3, 10000), RInt(5), Rat(1, 1000), RInt(5)),
      CostModel(RZero, RZero, RZero, RZero) }

\* trade_value as the callers compute it (an absolute value, so never
\* negative) and one negative value, which the guard of line 22 skips.
TradeValues == {RInt(k) : k \in {-1, 0, 1, 1000, 20000}}
\* The callers pass sell_value = trade_value for a sale and 0 for a purchase.
CostTrades ==
    { [symbol |-> "A", trade_value |-> tv, sell_value |-> sv] :
        tv \in TradeValues, sv \in {RZero} \cup {v \in TradeValues : RLt(RZero, v)} }

\* The cost model is built; no estimate has been asked for yet.
InitCost ==
    /\ GateUnused /\ PaperUnused /\ OthersUnused
    /\ \E cm \in CostModels : pol = [phase |-> "cost_model", cost_model |-> cm]

\* One call of estimate_for_rebalance: with the empty list first, then with
\* the list of the call before and one more trade.
EstimateForRebalance ==
    /\ \/ /\ pol.phase = "cost_model"
          /\ pol' = [phase |-> "cost", cost_model |-> pol.cost_model,
                     trades |-> <<>>,
                     total |-> estimate_for_rebalance(pol.cost_model, <<>>)]
       \/ /\ pol.phase = "cost"
          /\ Len(pol.trades) < MaxTrades
          /\ \E t \in CostTrades :
                pol' = [pol EXCEPT
                          !.trades = Append(@, t),
                          !.total = estimate_for_rebalance(pol.cost_model,
                                                           Append(pol.trades, t))]
    /\ UNCHANGED <<gateVars, paperVars, otherVars>>

NextCost == EstimateForRebalance
SpecCost == InitCost /\ [][NextCost]_vars

(***************************************************************************)
(* The score specification: compute_score and pick_best_equity applied to  *)
(* a price table that grows by one trading day at a time.                  *)
(***************************************************************************)
\* Trading days of the table at most, in the score specification.
MaxScoreDays == 4

\* The i-th trading day: Fridays and Mondays, starting on a Friday.
CalendarDay(i) == IF i % 2 = 1 THEN 7 * ((i - 1) \div 2) + 6 ELSE 7 * (i \div 2) + 2

\* The closes a trading day may bring.
PriceRows ==
    { [A |-> 2, B |-> 2, D |-> 2],
      [A |-> 1, B |-> 2, D |-> 2],
      [A |-> 3, B |-> 1, D |-> 1] }

\* The same, and days on which B is not listed yet.
ScoreRows ==
    PriceRows \cup { [A |-> 2, B |-> NaNClose, D |-> 2],
                     [A |-> 1, B |-> NaNClose, D |-> 2] }

\* The candidate lists, the weeks of volatility lookback and the lookback
\* days compute_score is called with.
CandidateLists == {<<>>, <<"A", "B">>, <<"B", "A">>}
LookbackWeeks == {1, 2}
LookbackDays == 1

InitScore ==
    /\ GateUnused /\ pol = PolIdle
    /\ cfg = [unused |-> TRUE]
    /\ \E row \in ScoreRows : prices = <<[date |-> CalendarDay(1), close |-> row]>>
    /\ file = [exists |-> FALSE]
    /\ last = [outcome |-> "none"]
    /\ absent = {}
    /\ blotter_dir = {}
    /\ OthersUnused

\* The table gets its next trading day; B stays listed once it is.
AppendScoreRow ==
    /\ Len(prices) < MaxScoreDays
    /\ \E row \in ScoreRows :
          /\ row.B = NaNClose => prices[Len(prices)].close.B = NaNClose
          /\ prices' = Append(prices, [date |-> CalendarDay(Len(prices) + 1),
                                       close |-> row])
    /\ pol' = PolIdle
    /\ UNCHANGED <<cfg, file, last, absent, blotter_dir, gateVars, otherVars>>

\* compute_score on the table up to one of its last two days, then
\* pick_best_equity on the result; pol is the call made on the table as it
\* is, if any.
ComputeScore ==
    /\ pol = PolIdle
    /\ \E symbols \in CandidateLists, m \in LookbackWeeks, fallback \in EquitySymbols,
          k \in {i \in 1 .. Len(prices) : i >= Len(prices) - 1} :
          \E quicksort \in TieOrders(Len(symbols)) :
              LET scores == compute_score(prices, symbols, prices[k].date,
                                          LookbackDays, m, Pct(1), quicksort)
              IN  pol' = [phase |-> "score", symbols |-> symbols,
                          signal_date |-> prices[k].date,
                          momentum_lookback_days |-> LookbackDays,
                          vol_lookback_weeks |-> m, fallback |-> fallback,
                          scores |-> scores,
                          winner |-> pick_best_equity(scores, fallback)]
    /\ UNCHANGED <<gateVars, paperVars, otherVars>>

NextScore == AppendScoreRow \/ ComputeScore
SpecScore == InitScore /\ [][NextScore]_vars

(***************************************************************************)
(* The paper-trading specification: the market data grows by one trading   *)
(* day at a time and run_paper_once is invoked at any moment, one          *)
(* invocation at a time.                                                   *)
(***************************************************************************)
\* Trading days of the table at most.
MaxDays == 5

\* The arguments cmd_run_paper reads from the configuration file.
PaperConfig(capital, cm, derisk, circuit, weeks, nw, dw) ==
    [equity_etfs |-> <<"A", "B">>, defensive_etf |-> "D",
     initial_capital |-> RInt(capital), no_trade_band |-> Pct(2),
     momentum_lookback_days |-> 1, vol_lookback_weeks |-> 2, vol_floor |-> Pct(1),
     risk_gate |-> [derisk_drawdown |-> derisk, circuit_drawdown |-> circuit,
                    cooldown_weeks |-> weeks],
     allocation |-> [normal_equity_weight |-> nw, derisk_equity_weight |-> dw],
     cost_model |-> cm]

PaperConfigs ==
    { PaperConfig(c, cm, Pct(10), Pct(20), 2, nw, Pct(50))
      : c \in {10}, nw \in {Pct(100), Pct(80)}, cm \in CostModels }

\* Configurations the file format allows and the specification calls
\* malformed: circuit_drawdown below derisk_drawdown, a negative
\* cooldown_weeks, an allocation weight above 1.
MalformedConfigs ==
    LET cm == CostModel(RZero, RZero, RZero, RZero)
    IN  { PaperConfig(10, cm, Pct(20), Pct(10), 2, Pct(100), Pct(50)),
          PaperConfig(10, cm, Pct(10), Pct(20), -1, Pct(100), Pct(50)),
          PaperConfig(10, cm, Pct(10), Pct(20), 2, Pct(150), Pct(50)) }

\* The price files update-data has not fetched yet.
AbsentChoices == {{}, {"B"}}

PaperInit ==
    /\ cfg \in PaperConfigs
    /\ \E row \in PriceRows : prices = <<[date |-> CalendarDay(1), close |-> row]>>
    /\ file = [exists |-> FALSE]
    /\ last = [outcome |-> "none"]
    /\ absent \in AbsentChoices
    /\ blotter_dir = {}

\* update-data: every symbol's file is fetched up to the next trading day,
\* while the table has fewer than n days.
UpdateDataTo(n) ==
    /\ Len(prices) < n
    /\ \E row \in PriceRows :
          prices' = Append(prices, [date |-> CalendarDay(Len(prices) + 1),
                                    close |-> row])
    /\ absent' = {}
    /\ UNCHANGED <<cfg, file, last, blotter_dir, gateVars, pol, otherVars>>

UpdateData == UpdateDataTo(MaxDays)

\* One run-paper invocation: the account is saved only by an advance.
RunPaperOnce ==
    /\ \E quicksort \in TieOrders(Len(cfg.equity_etfs)) :
          last' = run_paper_once(cfg, [absent |-> absent, prices |-> prices], file,
                                 quicksort)
    /\ file' = IF last'.outcome = "advanced"
               THEN [exists |-> TRUE, account |-> last'.run.account]
               ELSE file
    /\ blotter_dir' = IF last'.outcome = "advanced"
                      THEN {f \in blotter_dir : f.trade_dt # last'.run.trade_dt}
                           \cup {[trade_dt |-> last'.run.trade_dt,
                                   rows |-> last'.run.blotter]}
                      ELSE blotter_dir
    /\ UNCHANGED <<cfg, prices, absent, gateVars, pol, otherVars>>

Next == UpdateData \/ RunPaperOnce
Init == GateUnused /\ pol = PolIdle /\ PaperInit /\ OthersUnused
Spec == Init /\ [][Next]_vars

(***************************************************************************)
(* Paper trading beside one RiskGate instance kept in memory: gate is that *)
(* instance, constructed once from the configuration and given the         *)
(* drawdown of every advance; call and sinceTrip describe its calls.       *)
(***************************************************************************)
InitInMemory ==
    /\ pol = PolIdle /\ PaperInit /\ OthersUnused
    /\ gate = RiskGate(cfg.risk_gate.derisk_drawdown, cfg.risk_gate.circuit_drawdown,
                       cfg.risk_gate.cooldown_weeks)
    /\ call = NoCall
    /\ sinceTrip = 0

\* One run-paper invocation; the instance in memory is called when the
\* invocation has advanced the account.
RunPaperOnceBeside ==
    /\ \E quicksort \in TieOrders(Len(cfg.equity_etfs)) :
          last' = run_paper_once(cfg, [absent |-> absent, prices |-> prices], file,
                                 quicksort)
    /\ file' = IF last'.outcome = "advanced"
               THEN [exists |-> TRUE, account |-> last'.run.account]
               ELSE file
    /\ blotter_dir' = IF last'.outcome = "advanced"
                      THEN {f \in blotter_dir : f.trade_dt # last'.run.trade_dt}
                           \cup {[trade_dt |-> last'.run.trade_dt,
                                   rows |-> last'.run.blotter]}
                      ELSE blotter_dir
    /\ IF last'.outcome = "advanced"
       THEN \E res \in {on_rebalance(gate, last'.run.drawdown)} :
               /\ gate' = res.self
               /\ call' = [made |-> TRUE, prev |-> gate,
                           drawdown |-> last'.run.drawdown,
                           state |-> res.state, changed |-> res.changed]
               /\ sinceTrip' = IF FreshTrip(gate, res) THEN 1
                               ELSE IF sinceTrip = 0 THEN 0
                               ELSE IF sinceTrip > MaxCooldownWeeks THEN sinceTrip
                               ELSE sinceTrip + 1
       ELSE UNCHANGED gateVars
    /\ UNCHANGED <<cfg, prices, absent, pol, otherVars>>

NextInMemory == UpdateData \/ RunPaperOnceBeside
SpecInMemory == InitInMemory /\ [][NextInMemory]_vars

(***************************************************************************)
(* Paper trading on closes that fall by 10% and then drift by about two    *)
(* percent a day, with a capital that leaves cash after whole shares are   *)
(* bought.                                                                 *)
(***************************************************************************)
\* Trading days of the table at most, in the drift specification.
MaxDriftDays == 5

DriftRows ==
    { [A |-> 50, B |-> 50, D |-> 101],
      [A |-> 45, B |-> 50, D |-> 101],
      [A |-> 46, B |-> 50, D |-> 101] }

\* A volatility lookback of four weeks, longer than the table: no symbol has
\* a score yet and the winner is the first equity symbol.
DriftConfigs ==
    { [PaperConfig(1000, cm, Pct(10), Pct(20), 2, nw, Pct(50))
         EXCEPT !.vol_lookback_weeks = 4]
      : nw \in {Pct(100), Pct(80)}, cm \in CostModels }

InitDrift ==
    /\ GateUnused /\ pol = PolIdle
    /\ cfg \in DriftConfigs
    /\ \E row \in DriftRows : prices = <<[date |-> CalendarDay(1), close |-> row]>>
    /\ file = [exists |-> FALSE]
    /\ last = [outcome |-> "none"]
    /\ absent = {}
    /\ blotter_dir = {}
    /\ OthersUnused

\* update-data: the next trading day's closes.
UpdateDriftData ==
    /\ Len(prices) < MaxDriftDays
    /\ \E row \in DriftRows :
          prices' = Append(prices, [date |-> CalendarDay(Len(prices) + 1),
                                    close |-> row])
    /\ absent' = {}
    /\ UNCHANGED <<cfg, file, last, blotter_dir, gateVars, pol, otherVars>>

NextDrift == UpdateDriftData \/ RunPaperOnce
SpecDrift == InitDrift /\ [][NextDrift]_vars

(***************************************************************************)
(* The plan specification: paper trading with plan-weekly invoked at any   *)
(* moment between the other commands.                                      *)
(***************************************************************************)
\* Trading days of the table at most, in the plan specification.
MaxPlanDays == 3

PlanConfigs ==
    { PaperConfig(10, CostModel(Rat(3, 10000), RInt(5), Rat(1, 1000), RInt(5)),
                  Pct(10), Pct(20), 2, Pct(100), Pct(50)) }

InitPlan ==
    /\ GateUnused /\ pol = PolIdle
    /\ cfg \in PlanConfigs
    /\ \E row \in PriceRows : prices = <<[date |-> CalendarDay(1), close |-> row]>>
    /\ file = [exists |-> FALSE]
    /\ last = [outcome |-> "none"]
    /\ absent \in AbsentChoices
    /\ blotter_dir = {}
    /\ PlanUnused /\ RaceUnused /\ BtUnused /\ QueueUnused

UpdatePlanData == UpdateDataTo(MaxPlanDays)

\* One plan-weekly invocation.
PlanWeekly ==
    /\ \E quicksort \in TieOrders(Len(cfg.equity_etfs)) :
       \E r \in {cmd_plan_weekly(cfg, [absent |-> absent, prices |-> prices], file,
                                 quicksort)} :
          /\ file' = r.file
          /\ plan_csv' = IF r.plan.raised = "none"
                         THEN [exists |-> TRUE, signal_dt |-> r.plan.signal_dt,
                               rows |-> r.plan.rows]
                         ELSE plan_csv
    /\ UNCHANGED <<cfg, prices, last, absent, blotter_dir, gateVars, pol, race, bt, queue>>

NextPlan == UpdatePlanData \/ RunPaperOnce \/ PlanWeekly
SpecPlan == InitPlan /\ [][NextPlan]_vars

(***************************************************************************)
(* The backtest specification: run_bt_backtest on a whole price table, the *)
(* strategy taken through it one trading day at a time.                    *)
(***************************************************************************)
\* Trading days of the table, in the backtest specification.
MaxBtDays == 5

\* The arguments cmd_backtest reads from the configuration file.
BacktestConfigs ==
    { PaperConfig(1000, cm, Pct(10), Pct(20), 2, nw, Pct(50))
      : nw \in {Pct(100), Pct(80)}, cm \in CostModels }

BacktestTables ==
    { [i \in 1 .. MaxBtDays |-> [date |-> CalendarDay(i), close |-> rows[i]]]
      : rows \in [1 .. MaxBtDays -> PriceRows] }

InitBacktest ==
    /\ GateUnused /\ pol = PolIdle
    /\ cfg \in BacktestConfigs
    /\ prices \in BacktestTables
    /\ file = [exists |-> FALSE]
    /\ last = [outcome |-> "none"]
    /\ absent = {}
    /\ blotter_dir = {}
    /\ PlanUnused /\ RaceUnused /\ QueueUnused
    /\ bt = Strategy_new(cfg.initial_capital,
                         RiskGate(cfg.risk_gate.derisk_drawdown,
                                  cfg.risk_gate.circuit_drawdown,
                                  cfg.risk_gate.cooldown_weeks))

\* bt.run: the next trading day.
BacktestDay ==
    /\ bt.done < Len(prices)
    /\ \E quicksort \in TieOrders(Len(cfg.equity_etfs)) :
          bt' = strategy_run(cfg, prices, bt, quicksort)
    /\ UNCHANGED <<gateVars, pol, paperVars, plan_csv, race, queue>>

NextBacktest == BacktestDay
SpecBacktest == InitBacktest /\ [][NextBacktest]_vars

(***************************************************************************)
(* Either driver: a behaviour is a paper-trading account taken through     *)
(* update-data and run-paper, or one backtest.                             *)
(***************************************************************************)
InitDrivers == Init \/ InitBacktest
PaperDriverStep == BtUnused /\ (UpdatePlanData \/ RunPaperOnce)
BacktestDriverStep == ~BtUnused /\ BacktestDay
NextDrivers == PaperDriverStep \/ BacktestDriverStep
SpecDrivers == InitDrivers /\ [][NextDrivers]_vars

(***************************************************************************)
(* The interleaving specification: two run-paper invocations against the   *)
(* same account file, each taking its steps on the files (the read of the  *)
(* prices and the account, the write of the account, the write of the      *)
(* blotter) at any moment; nothing in run_paper_once locks the files.      *)
(***************************************************************************)
\* Trading days of the table at most, in the interleaving specification.
MaxRaceDays == 3

Invocations == {1, 2}
NotRunning == [pc |-> "idle"]

\* Each invocation runs once (idle, loaded, saved, returned).
\* serial, applied, pre and table are ghosts: whether no invocation has read
\* the account while another was between its read and its last write, the
\* trade dates of the accounts written, and the account file and the table
\* read by the last invocation that started alone.
InitRace ==
    /\ GateUnused /\ pol = PolIdle
    /\ cfg \in PlanConfigs
    /\ \E row \in PriceRows : prices = <<[date |-> CalendarDay(1), close |-> row]>>
    /\ file = [exists |-> FALSE]
    /\ last = [outcome |-> "none"]
    /\ absent = {}
    /\ blotter_dir = {}
    /\ PlanUnused /\ BtUnused /\ QueueUnused
    /\ race = [inv |-> [w \in Invocations |-> NotRunning], serial |-> TRUE,
               applied |-> <<>>, pre |-> [exists |-> FALSE], table |-> <<>>]

UpdateRaceData == UpdateDataTo(MaxRaceDays)

\* Lines 88-96 of invocation w: the prices and the account are read.  What
\* follows up to line 261 works on this copy; an invocation that raises
\* ends here.
Load(w) ==
    /\ race.inv[w].pc = "idle"
    /\ \E quicksort \in TieOrders(Len(cfg.equity_etfs)) :
       \E r \in {run_paper_once(cfg, [absent |-> absent, prices |-> prices], file,
                                quicksort)} :
       \E alone \in {\A v \in Invocations \ {w} :
                        race.inv[v].pc \in {"idle", "returned"}} :
          IF r.outcome = "advanced"
          THEN /\ race' = [race EXCEPT !.inv[w] = [pc |-> "loaded", run |-> r],
                                       !.serial = @ /\ alone,
                                       !.pre = IF alone THEN file ELSE @,
                                       !.table = IF alone THEN prices ELSE @]
               /\ last' = last
          ELSE /\ race' = [race EXCEPT !.inv[w] = [pc |-> "returned"]]
               /\ last' = r
    /\ UNCHANGED <<cfg, prices, file, absent, blotter_dir, gateVars, pol, plan_csv, bt, queue>>

\* Line 262 of invocation w: account.save(account_path).
Save(w) ==
    /\ race.inv[w].pc = "loaded"
    /\ file' = [exists |-> TRUE, account |-> race.inv[w].run.run.account]
    /\ race' = [race EXCEPT !.inv[w].pc = "saved",
                            !.applied = Append(@, race.inv[w].run.run.trade_dt)]
    /\ UNCHANGED <<cfg, prices, last, absent, blotter_dir, gateVars, pol, plan_csv, bt, queue>>

\* Lines 264-304 of invocation w: the blotter is written and the call returns.
WriteBlotter(w) ==
    /\ race.inv[w].pc = "saved"
    /\ LET r == race.inv[w].run
       IN  /\ blotter_dir' = {f \in blotter_dir : f.trade_dt # r.run.trade_dt}
                                 \cup {[trade_dt |-> r.run.trade_dt,
                                         rows |-> r.run.blotter]}
           /\ last' = r
    /\ race' = [race EXCEPT !.inv[w] = [pc |-> "returned"]]
    /\ UNCHANGED <<cfg, prices, file, absent, gateVars, pol, plan_csv, bt, queue>>

NextRace ==
    \/ UpdateRaceData
    \/ \E w \in Invocations : Load(w)
    \/ \E w \in Invocations : Save(w)
    \/ \E w \in Invocations : WriteBlotter(w)
SpecRace == InitRace /\ [][NextRace]_vars

\* The paper-trading specification started with a malformed configuration.
InitConfig ==
    /\ GateUnused /\ pol = PolIdle
    /\ cfg \in MalformedConfigs
    /\ \E row \in PriceRows : prices = <<[date |-> CalendarDay(1), close |-> row]>>
    /\ file = [exists |-> FALSE]
    /\ last = [outcome |-> "none"]
    /\ absent = {}
    /\ blotter_dir = {}
    /\ OthersUnused
SpecConfig == InitConfig /\ [][Next]_vars

(***************************************************************************)
(* Risk-gate claims, checked under SpecGate.                               *)
(***************************************************************************)
InCooldownAtEntry == call.prev.state = CIRCUIT_COOLDOWN /\ call.prev.cooldown_left > 0
TripCall == call.made /\ call.state = CIRCUIT_COOLDOWN /\ call.prev.state # CIRCUIT_COOLDOWN

\* C3: after a fresh circuit trip the gate returns CIRCUIT_COOLDOWN on at
\* least cooldown_weeks consecutive rebalance events, the trip included,
\* whatever the drawdowns of those events are.
C3_CooldownLasts ==
    (sinceTrip >= 1 /\ sinceTrip <= gate.cooldown_weeks)
        => (call.state = CIRCUIT_COOLDOWN /\ gate.state = CIRCUIT_COOLDOWN)

\* The last event of a 4-event cooldown, reached with a recovered drawdown.
C3_Witness ==
    /\ gate.cooldown_weeks = 4
    /\ sinceTrip = 4
    /\ call.drawdown = Pct(0)
    /\ call.state = CIRCUIT_COOLDOWN

\* C4: a call with d >= circuit_drawdown from NORMAL or DE_RISK moves the gate
\* to CIRCUIT_COOLDOWN, sets cooldown_left = max(cooldown_weeks - 1, 0) and
\* reports changed = TRUE.
C4_FreshTrip ==
    (/\ call.made
     /\ call.prev.state \in {NORMAL, DE_RISK}
     /\ RGeq(call.drawdown, call.prev.circuit_drawdown))
        => /\ call.state = CIRCUIT_COOLDOWN
           /\ gate.state = CIRCUIT_COOLDOWN
           /\ gate.cooldown_left = IntMax(gate.cooldown_weeks - 1, 0)
           /\ call.changed

\* The spec's scenario: 10%/20%, cooldown_weeks = 4, 22% from NORMAL.
C4_Witness ==
    /\ call.made
    /\ call.prev.state = NORMAL
    /\ gate.derisk_drawdown = Pct(10) /\ gate.circuit_drawdown = Pct(20)
    /\ gate.cooldown_weeks = 4
    /\ call.drawdown = Pct(22)
    /\ gate.state = CIRCUIT_COOLDOWN /\ gate.cooldown_left = 3

\* C5 as stated: entering CIRCUIT_COOLDOWN sets cooldown_left to
\* cooldown_weeks - 1, and a call in CIRCUIT_COOLDOWN with cooldown_left > 0
\* decrements it by 1, keeps the state and reports changed = FALSE.
C5_Original ==
    /\ TripCall => gate.cooldown_left = gate.cooldown_weeks - 1
    /\ (call.made /\ InCooldownAtEntry)
          => /\ gate.cooldown_left = call.prev.cooldown_left - 1
             /\ gate.state = CIRCUIT_COOLDOWN /\ call.state = CIRCUIT_COOLDOWN
             /\ ~call.changed

\* C5 amended: entering CIRCUIT_COOLDOWN sets cooldown_left to
\* max(cooldown_weeks - 1, 0); a call in CIRCUIT_COOLDOWN with
\* cooldown_left > 0 decrements it by exactly 1, keeps the state and reports
\* changed = FALSE, for every drawdown.
C5_CooldownCountdown ==
    /\ TripCall => gate.cooldown_left = IntMax(gate.cooldown_weeks - 1, 0)
    /\ (call.made /\ InCooldownAtEntry)
          => /\ gate.cooldown_left = call.prev.cooldown_left - 1
             /\ gate.state = CIRCUIT_COOLDOWN /\ call.state = CIRCUIT_COOLDOWN
             /\ ~call.changed

\* A countdown step from cooldown_left = 2 to 1, taken with no drawdown at all.
C5_Witness ==
    /\ call.made /\ InCooldownAtEntry
    /\ call.drawdown = Pct(0)
    /\ call.prev.cooldown_left = 2 /\ gate.cooldown_left = 1

\* C6: a call with d >= circuit_drawdown on a gate in CIRCUIT_COOLDOWN with
\* cooldown_left = 0 keeps the state, keeps cooldown_left = 0 and reports
\* changed = FALSE; the gate is then in the same position for the next call.
C6_NoRearm ==
    (/\ call.made
     /\ call.prev.state = CIRCUIT_COOLDOWN /\ call.prev.cooldown_left = 0
     /\ RGeq(call.drawdown, call.prev.circuit_drawdown))
        => /\ call.state = CIRCUIT_COOLDOWN
           /\ gate.state = CIRCUIT_COOLDOWN
           /\ gate.cooldown_left = 0
           /\ ~call.changed

\* An expired 4-event cooldown met again by a 22% drawdown.
C6_Witness ==
    /\ call.made
    /\ gate.cooldown_weeks = 4 /\ sinceTrip > 4
    /\ call.prev.state = CIRCUIT_COOLDOWN /\ call.prev.cooldown_left = 0
    /\ call.drawdown = Pct(22) /\ gate.circuit_drawdown = Pct(20)
    /\ gate.state = CIRCUIT_COOLDOWN /\ gate.cooldown_left = 0

WellFormedThresholds(g) == RLeq(g.derisk_drawdown, g.circuit_drawdown)

\* C7 as stated: every call with d < derisk_drawdown yields NORMAL, from
\* every reachable gate state (thresholds with circuit >= derisk).
C7_Original ==
    (/\ call.made
     /\ WellFormedThresholds(call.prev)
     /\ RLt(call.drawdown, call.prev.derisk_drawdown))
        => call.state = NORMAL

\* C7 amended: a call with d below both thresholds yields NORMAL unless the
\* gate is in CIRCUIT_COOLDOWN with cooldown_left > 0 at entry, and then it
\* yields CIRCUIT_COOLDOWN.
C7_BelowDerisk ==
    (/\ call.made
     /\ RLt(call.drawdown, call.prev.derisk_drawdown)
     /\ RLt(call.drawdown, call.prev.circuit_drawdown))
        => IF InCooldownAtEntry
           THEN call.state = CIRCUIT_COOLDOWN /\ gate.state = CIRCUIT_COOLDOWN
           ELSE call.state = NORMAL /\ gate.state = NORMAL

\* A 3% drawdown takes a de-risked gate back to NORMAL.
C7_Witness ==
    /\ call.made
    /\ call.prev.state = DE_RISK
    /\ call.drawdown = Pct(3) /\ gate.derisk_drawdown = Pct(10)
    /\ gate.state = NORMAL /\ call.changed

\* C8: a call with derisk_drawdown <= d < circuit_drawdown on a NORMAL gate
\* returns (DE_RISK, changed = TRUE) and leaves cooldown_left unchanged.
C8_DeRisk ==
    (/\ call.made
     /\ call.prev.state = NORMAL
     /\ RGeq(call.drawdown, call.prev.derisk_drawdown)
     /\ RLt(call.drawdown, call.prev.circuit_drawdown))
        => /\ call.state = DE_RISK /\ gate.state = DE_RISK
           /\ call.changed
           /\ gate.cooldown_left = call.prev.cooldown_left

\* The drawdown equal to the de-risk threshold, from NORMAL.
C8_Witness ==
    /\ call.made
    /\ call.prev.state = NORMAL
    /\ call.drawdown = Pct(10) /\ gate.derisk_drawdown = Pct(10)
    /\ gate.circuit_drawdown = Pct(20)
    /\ gate.state = DE_RISK

(***************************************************************************)
(* Weight-policy claims, checked under SpecPolicy.                         *)
(***************************************************************************)
InUnit(w) == RLeq(RZero, w) /\ RLeq(w, ROne)

\* C9: target_weights returns weights in [0,1] and is exactly
\* CIRCUIT_COOLDOWN -> {defensive: 1.0}, DE_RISK -> {winner: derisk_weight,
\* defensive: 1 - derisk_weight}, NORMAL -> {winner: normal_weight}.
C9_TargetWeights ==
    pol.phase = "weights" =>
        /\ \A i \in 1 .. Len(pol.tw) : InUnit(pol.tw[i][2])
        /\ pol.state = CIRCUIT_COOLDOWN => pol.tw = <<<<pol.defensive_symbol, ROne>>>>
        /\ pol.state = DE_RISK =>
              pol.tw = <<<<pol.equity_symbol, pol.derisk_equity_weight>>,
                         <<pol.defensive_symbol, RSub(ROne, pol.derisk_equity_weight)>>>>
        /\ pol.state = NORMAL => pol.tw = <<<<pol.equity_symbol, pol.normal_equity_weight>>>>

\* C10: in both drivers, for each symbol of the target set, the adjusted
\* weight is the current weight cw when |w - cw| < band and the target w
\* when |w - cw| >= band; no symbol is added or dropped.
C10_NoTradeBand ==
    pol.phase = "band" =>
        /\ DictKeys(pol.paper) = DictKeys(pol.tw)
        /\ DictKeys(pol.backtest) = DictKeys(pol.tw)
        /\ \A i \in 1 .. Len(pol.tw) :
              LET s == pol.tw[i][1]
                  w == pol.tw[i][2]
                  cw == DictGet(pol.current_weights, s, RZero)
                  dev == RAbs(RSub(w, cw))
                  want == IF RLt(dev, pol.no_trade_band) THEN cw ELSE w
              IN  /\ pol.paper[i] = <<s, want>>
                  /\ pol.backtest[i] = <<s, want>>

\* Defensive at 50% with a 49% target and a 2% band stays at 50%, while the
\* winner, 23 points away from its target, is moved to it.
C10_Witness ==
    /\ pol.phase = "band"
    /\ pol.no_trade_band = Pct(2)
    /\ pol.tw = <<<<"A", Pct(51)>>, <<DefensiveSymbol, Pct(49)>>>>
    /\ DictGet(pol.current_weights, DefensiveSymbol, RZero) = Pct(50)
    /\ DictGet(pol.current_weights, "A", RZero) = Pct(28)
    /\ pol.paper = <<<<"A", Pct(51)>>, <<DefensiveSymbol, Pct(50)>>>>
    /\ pol.backtest = pol.paper

(***************************************************************************)
(* Paper-trading claims, checked under Spec.                               *)
(***************************************************************************)
\* C1: after any sequence of successful advances from a freshly created
\* account, the saved account has no negative cash and no negative share
\* count.
C1_NoNegativeHoldings ==
    file.exists =>
        /\ RLeq(RZero, file.account.cash)
        /\ \A i \in 1 .. Len(file.account.positions) : file.account.positions[i][2] >= 0

\* as_of of the account the next invocation loads.
AsOfOnFile == IF file.exists THEN file.account.as_of ELSE None

\* The rebalance dates of the table that an account at as_of has not executed.
LaterRebalanceDates(as_of) ==
    LET rd == rebalance_dates_of(prices)
    IN  {rd[i] : i \in {j \in 1 .. Len(rd) : as_of = None \/ rd[j] > as_of}}

Earliest(S) == CHOOSE d \in S : \A e \in S : d <= e

C11_NothingToDo ==
    [][(/\ prices' = prices
        /\ file.exists
        /\ LaterRebalanceDates(file.account.as_of) = {})
          => /\ last'.outcome = "up_to_date"
             /\ file' = file
             /\ blotter_dir' = blotter_dir]_vars

\* An account that has advanced twice is run again on the same table.
C11_Witness ==
    /\ last.outcome = "up_to_date"
    /\ file.exists /\ Len(file.account.history) = 2
    /\ Cardinality(blotter_dir) = 2
    /\ file.account.as_of = prices[Len(prices)].date

\* A buy that got fewer shares than the target asked for, or none.
UnfundedBuy(t, target_shares) ==
    /\ t.action \in {"BUY", "HOLD"}
    /\ t.delta < DictGet(target_shares, t.symbol, 0) - t.cur

\* C12: run_paper_once returns without raising both when there is no
\* pending rebalance date and when a buy cannot be fully funded.
C12_NormalOutcomes ==
    /\ last.outcome = "up_to_date" => last.raised = "none"
    /\ (/\ last.outcome = "advanced"
        /\ \E k \in 1 .. Len(last.run.trades) :
              UnfundedBuy(last.run.trades[k], last.run.target_shares))
          => last.raised = "none"

Malformed(c) ==
    \/ RLt(c.risk_gate.circuit_drawdown, c.risk_gate.derisk_drawdown)
    \/ c.risk_gate.cooldown_weeks < 0
    \/ ~InUnit(c.allocation.normal_equity_weight)
    \/ ~InUnit(c.allocation.derisk_equity_weight)

\* C13: with a malformed configuration (circuit_drawdown < derisk_drawdown,
\* negative cooldown_weeks, an allocation weight outside [0,1]) the driver
\* fails before the first on_rebalance call and before any account mutation.
C13_ConfigRejected ==
    Malformed(cfg) => /\ last.outcome # "advanced"
                      /\ ~file.exists

\* C14: an invocation fails with an error when a configured symbol has no
\* price file or the table yields no rebalance date, and every invocation
\* that ends with an error leaves the account file exactly as it was.
C14_FailuresLeaveAccount ==
    [][prices' = prices =>
         /\ (\E i \in 1 .. Len(cfg.equity_etfs) : cfg.equity_etfs[i] \in absent)
               \/ cfg.defensive_etf \in absent
               => last'.outcome = "missing_data" /\ last'.raised = "FileNotFoundError"
         /\ (absent = {} /\ Len(rebalance_dates_of(prices)) = 0)
               => last'.outcome = "no_rebalance_dates" /\ last'.raised = "RuntimeError"
         /\ last'.raised # "none" => file' = file /\ blotter_dir' = blotter_dir]_vars

\* A run with the price file of B missing.
C14_Witness ==
    /\ last.outcome = "missing_data"
    /\ absent = {"B"}
    /\ ~file.exists

\* What a recorded trade does to cash.
TradeCash(t) ==
    IF t.action = "SELL" THEN RSub(RInt((-t.delta) * t.px), t.cost)
    ELSE IF t.action = "BUY" THEN RSub(RZero, RAdd(RInt(t.delta * t.px), t.cost))
    ELSE RZero

\* Cash on hand when trade k of a run is attempted.
RECURSIVE CashBefore(_, _, _)
CashBefore(cash, trades, k) ==
    IF k <= 1 THEN cash
    ELSE RAdd(CashBefore(cash, trades, k - 1), TradeCash(trades[k - 1]))

\* Value plus estimated cost of buying b shares of s at price px.
BuyNeed(b, px, s) ==
    RAdd(RInt(b * px), est_cost_for(cfg.cost_model, s, RInt(b * px), RZero))

\* C15: for each buy with desired share delta D > 0 and available cash c,
\* the number of shares bought is the largest b in 0..D with
\* b*price + cost(b*price) <= c within the 1e-6 tolerance; cash goes down by
\* exactly that value plus cost, and b = 0 changes neither cash nor position.
C15_LargestAffordable ==
    last.outcome = "advanced" =>
        LET run == last.run
            trades == run.trades
        IN  /\ run.account.cash = CashBefore(last.loaded.cash, trades, Len(trades) + 1)
            /\ \A k \in 1 .. Len(trades) :
                  trades[k].action \in {"BUY", "HOLD"} =>
                    LET t == trades[k]
                        D == DictGet(run.target_shares, t.symbol, 0) - t.cur
                        c == CashBefore(last.loaded.cash, trades, k)
                        ok == {b \in 0 .. D :
                                 RLeq(BuyNeed(b, t.px, t.symbol), RAdd(c, CashTolerance))}
                    IN  /\ D > 0
                        /\ t.delta \in ok
                        /\ \A b \in ok : b <= t.delta
                        /\ (t.delta = 0) = (t.action = "HOLD")
                        /\ t.delta > 0 => t.cost = RSub(BuyNeed(t.delta, t.px, t.symbol),
                                                        RInt(t.delta * t.px))
                        /\ DictGet(run.account.positions, t.symbol, 0) = t.cur + t.delta

\* C16: every blotter row reports what was executed: delta_shares is the
\* symbol's share count after the advance minus the one before it, action
\* is BUY/SELL/HOLD by the sign of that difference; a buy that degrades to
\* zero shares is a HOLD row with delta_shares = 0.
C16_BlotterExecuted ==
    last.outcome = "advanced" =>
        \A i \in 1 .. Len(last.run.blotter) :
            LET row == last.run.blotter[i]
                executed == DictGet(last.run.account.positions, row.symbol, 0)
                              - DictGet(last.loaded.positions, row.symbol, 0)
            IN  /\ row.delta_shares = executed
                /\ row.action = IF executed = 0 THEN "HOLD"
                                ELSE IF executed > 0 THEN "BUY" ELSE "SELL"

\* C17: within one advance every sell is executed, its proceeds less cost
\* credited to cash, before any buy is attempted, and among the buys the
\* defensive symbol is processed last.  In the trade list no SELL follows a
\* buy attempt, no buy attempt follows the defensive symbol's, and every
\* purchase is covered by the cash the trades before it left.
C17_SellsBeforeBuys ==
    last.outcome = "advanced" =>
        LET trades == last.run.trades
        IN  \A k \in 1 .. Len(trades) :
              /\ trades[k].action = "SELL" =>
                    \A j \in 1 .. k - 1 : trades[j].action = "SELL"
              /\ (trades[k].action # "SELL" /\ trades[k].symbol = cfg.defensive_etf)
                    => k = Len(trades)
              /\ trades[k].action = "BUY" =>
                    RLeq(RAdd(RInt(trades[k].delta * trades[k].px), trades[k].cost),
                         RAdd(CashBefore(last.loaded.cash, trades, k), CashTolerance))

\* A purchase of the defensive symbol that only the proceeds of the sale
\* recorded before it could pay.
C17_Witness ==
    /\ last.outcome = "advanced"
    /\ Len(last.run.trades) = 2
    /\ last.run.trades[1].action = "SELL"
    /\ last.run.trades[2].action = "BUY"
    /\ last.run.trades[2].symbol = cfg.defensive_etf
    /\ RLt(last.loaded.cash,
           RInt(last.run.trades[2].delta * last.run.trades[2].px))

\* C18: equity_peak of the saved account never decreases from one
\* invocation to the next (starting from the initial capital), and after an
\* advance it is at least every equity value of the account's history.
C18_PeakMonotone ==
    [][prices' = prices =>
         /\ file.exists /\ file'.exists
               => RLeq(file.account.equity_peak, file'.account.equity_peak)
         /\ (~file.exists /\ file'.exists)
               => RLeq(cfg.initial_capital, file'.account.equity_peak)
         /\ last'.outcome = "advanced" =>
               \A i \in 1 .. Len(file'.account.history) :
                   RLeq(file'.account.history[i].equity, file'.account.equity_peak)]_vars

\* The third advance of an account whose value had fallen below its peak
\* and then rose above it.
C18_Witness ==
    /\ last.outcome = "advanced"
    /\ Len(file.account.history) = 3
    /\ RLt(file.account.history[1].equity, last.loaded.equity_peak)
    /\ RLt(last.loaded.equity_peak, file.account.equity_peak)

\* C19: after a successful advance the saved account has as_of equal to
\* the trade date, no position entry with 0 shares, the gate state and
\* cooldown_left that this advance's gate call produced, and as last history
\* point the trade date with cash + sum of shares * trade-date price of the
\* holdings after the trades.
C19_SavedAccount ==
    last.outcome = "advanced" =>
        LET acc == file.account
            run == last.run
            close == prices[Loc(prices, run.trade_dt)].close
            held == [i \in 1 .. Len(acc.positions) |->
                        RInt(acc.positions[i][2] * close[acc.positions[i][1]])]
            called == on_rebalance(
                          [RiskGate(cfg.risk_gate.derisk_drawdown,
                                    cfg.risk_gate.circuit_drawdown,
                                    cfg.risk_gate.cooldown_weeks)
                             EXCEPT !.state = last.loaded.gate.state,
                                    !.cooldown_left = last.loaded.gate.cooldown_left],
                          run.drawdown)
        IN  /\ file.exists
            /\ acc.as_of = run.trade_dt
            /\ \A i \in 1 .. Len(acc.positions) : acc.positions[i][2] # 0
            /\ acc.gate = [state |-> called.state,
                           cooldown_left |-> called.self.cooldown_left]
            /\ Len(acc.history) > 0
            /\ acc.history[Len(acc.history)] =
                  [date |-> run.trade_dt, equity |-> RAdd(acc.cash, RSum(held, 1))]

\* An advance that tripped the gate and sold a position out entirely while
\* another one was bought.
C19_Witness ==
    /\ last.outcome = "advanced"
    /\ last.run.changed /\ file.account.gate.state = CIRCUIT_COOLDOWN
    /\ DictHas(last.loaded.positions, "A")
    /\ ~DictHas(file.account.positions, "A")
    /\ DictHas(file.account.positions, "D")

\* The trading days of the table from day a to day b.
DaysBetween(a, b) == {prices[i].date : i \in {j \in 1 .. Len(prices) :
                                                a <= prices[j].date /\ prices[j].date <= b}}

C21_PlanIsDryRun ==
    [][plan_csv' # plan_csv =>
         LET acc == IF file.exists THEN file.account
                    ELSE PaperAccount_new(cfg.initial_capital,
                                          [state |-> NORMAL, cooldown_left |-> 0])
             row == plan_csv'.rows[1]
             peak == RMax(acc.equity_peak, row.equity_estimated)
             entry == [RiskGate(cfg.risk_gate.derisk_drawdown,
                                cfg.risk_gate.circuit_drawdown,
                                cfg.risk_gate.cooldown_weeks)
                         EXCEPT !.state = acc.gate.state,
                                !.cooldown_left = acc.gate.cooldown_left]
         IN  /\ file' = file
             /\ blotter_dir' = blotter_dir
             /\ plan_csv'.signal_dt = prices[Len(prices)].date
             /\ row.drawdown = IF RLt(RZero, peak)
                               THEN RSub(ROne, RDiv(row.equity_estimated, peak))
                               ELSE RZero
             /\ row.state = on_rebalance(entry, row.drawdown).state]_vars

\* The plan for the latest close puts the gate in CIRCUIT_COOLDOWN while the
\* account file still says NORMAL.
C21_Witness ==
    /\ plan_csv.exists /\ file.exists
    /\ plan_csv.signal_dt = prices[Len(prices)].date
    /\ plan_csv.rows[1].state = CIRCUIT_COOLDOWN
    /\ file.account.gate.state = NORMAL
    /\ file.account.as_of < plan_csv.signal_dt

(***************************************************************************)
(* Cost-model claims, checked under SpecCost.                              *)
(***************************************************************************)
\* C23: estimate_for_rebalance returns 0 for an empty trade list, and with
\* the rates and the sell_value of a trade fixed, raising that trade's
\* trade_value never lowers the estimate.
C23_CostMonotone ==
    pol.phase = "cost" =>
        /\ (Len(pol.trades) = 0 => pol.total = RZero)
        /\ \A k \in 1 .. Len(pol.trades), v \in TradeValues :
              RLeq(pol.trades[k].trade_value, v) =>
                  RLeq(pol.total,
                       estimate_for_rebalance(pol.cost_model,
                           [pol.trades EXCEPT ![k].trade_value = v]))

\* A trade at the minimum commission whose value can still be raised past
\* the point where the rate takes over.
C23_Witness ==
    /\ pol.phase = "cost"
    /\ Len(pol.trades) = MaxTrades
    /\ RLt(RZero, pol.cost_model.min_commission)
    /\ \E k \in 1 .. Len(pol.trades) :
          /\ pol.trades[k].trade_value = RInt(1000)
          /\ RLt(RZero, pol.trades[k].sell_value)
          /\ RLt(pol.total,
                 estimate_for_rebalance(pol.cost_model,
                     [pol.trades EXCEPT ![k].trade_value = RInt(20000)]))

\* The cost of one trade as the specification words it.
ClaimedTradeCost(cm, t) ==
    RAdd(RAdd(RMax(RMul(t.trade_value, cm.commission_rate), cm.min_commission),
              RMul(t.sell_value, cm.stamp_tax_rate)),
         RDiv(RMul(t.trade_value, cm.slippage_bps), RInt(10000)))

PositiveTrades(trades) == SelectSeq(trades, LAMBDA t : RLt(RZero, t.trade_value))

\* C24: the estimate is the sum, over the trades with trade_value > 0, of
\* max(trade_value * commission_rate, min_commission)
\* + sell_value * stamp_tax_rate + trade_value * slippage_bps / 10000; the
\* other trades add nothing, and n trades of positive value cost at least
\* n * min_commission.
C24_CostFormula ==
    pol.phase = "cost" =>
        LET pos == PositiveTrades(pol.trades)
            each == [i \in 1 .. Len(pos) |-> ClaimedTradeCost(pol.cost_model, pos[i])]
        IN  /\ pol.total = RSum(each, 1)
            /\ RLeq(RMul(RInt(Len(pos)), pol.cost_model.min_commission), pol.total)

\* Two trades of positive value, both at the minimum commission, next to
\* nothing else.
C24_Witness ==
    /\ pol.phase = "cost"
    /\ Len(pol.trades) = 2
    /\ \A k \in 1 .. 2 : pol.trades[k].trade_value = RInt(1000)
    /\ pol.cost_model.min_commission = RInt(5)
    /\ RLeq(RInt(10), pol.total)

(***************************************************************************)
(* Score claims, checked under SpecScore.                                  *)
(***************************************************************************)
ScoreOf(sym) == DictGet(pol.scores, sym, NaN)
Candidates == {pol.symbols[i] : i \in 1 .. Len(pol.symbols)}
FiniteCandidates == {c \in Candidates : ScoreOf(c).kind = "finite"}

\* C25: pick_best_equity returns a candidate whose score is finite and that
\* no candidate outscores; when there is no candidate, or none with a finite
\* score at the top, it returns the fallback; the result is a symbol.
C25_PickBest ==
    pol.phase = "score" =>
        /\ pol.winner \in EquitySymbols
        /\ IF FiniteCandidates = {} THEN pol.winner = pol.fallback
           ELSE /\ pol.winner \in FiniteCandidates
                /\ \A c \in Candidates : ~ScoreGt(ScoreOf(c), ScoreOf(pol.winner))

\* A beats B on finite scores although B is listed first and is the fallback.
C25_Witness ==
    /\ pol.phase = "score"
    /\ pol.symbols = <<"B", "A">>
    /\ pol.fallback = "B"
    /\ FiniteCandidates = {"A", "B"}
    /\ ScoreGt(ScoreOf("A"), ScoreOf("B"))
    /\ pol.winner = "A"

\* The observations of a symbol up to the signal date, and the weeks they
\* fall in.
Observations(sym) ==
    {i \in 1 .. Len(prices) :
        prices[i].date <= pol.signal_date /\ prices[i].close[sym] # NaNClose}
WeeklyReturns(sym) ==
    Cardinality({Period(prices[i].date) : i \in Observations(sym)}) - 1
TooShort(sym) ==
    \/ Cardinality(Observations(sym)) < pol.momentum_lookback_days + 1
    \/ WeeklyReturns(sym) < pol.vol_lookback_weeks

\* C26: a candidate with fewer than N+1 daily observations or fewer than M
\* weekly returns up to the signal date scores -infinity; it is the winner
\* only as the fallback, and only when no candidate has a finite score.
C26_ShortHistory ==
    pol.phase = "score" =>
        \A c \in Candidates :
            TooShort(c) =>
                /\ ScoreOf(c) = NegInf
                /\ pol.winner = c => FiniteCandidates = {} /\ pol.fallback = c

\* B, listed late, is the fallback and has too little history; A has a
\* finite score and wins.
C26_Witness ==
    /\ pol.phase = "score"
    /\ "B" \in Candidates /\ TooShort("B")
    /\ pol.fallback = "B"
    /\ FiniteCandidates = {"A"}
    /\ pol.winner = "A"

PlaceIn(seq, x) == CHOOSE i \in 1 .. Len(seq) : seq[i] = x

\* C27: the result of compute_score is in descending order of score, equal
\* scores in the order of the candidate list, so of two candidates that tie
\* for the top finite score the one listed first wins.
C27_StableOrder ==
    pol.phase = "score" =>
        /\ \A i, j \in 1 .. Len(pol.scores) :
              (i < j /\ pol.scores[i][2].kind # "nan" /\ pol.scores[j][2].kind # "nan") =>
                  /\ ~ScoreGt(pol.scores[j][2], pol.scores[i][2])
                  /\ ~ScoreGt(pol.scores[i][2], pol.scores[j][2]) =>
                        PlaceIn(pol.symbols, pol.scores[i][1])
                            < PlaceIn(pol.symbols, pol.scores[j][1])
        /\ \A c, d \in FiniteCandidates :
              (/\ PlaceIn(pol.symbols, c) < PlaceIn(pol.symbols, d)
               /\ ~ScoreGt(ScoreOf(c), ScoreOf(d)) /\ ~ScoreGt(ScoreOf(d), ScoreOf(c))
               /\ \A e \in Candidates : ~ScoreGt(ScoreOf(e), ScoreOf(c)))
                  => pol.winner # d

(***************************************************************************)
(* Backtest claims, checked under SpecBacktest.                            *)
(***************************************************************************)
Triggered(i) ==
    \E k \in 1 .. Len(bt.signals) : bt.signals[k].trade_date = prices[i].date

\* C22: the backtest rebalances on trading day i exactly when i is not the
\* first day of the table and day i lies in another W-FRI week than day
\* i-1; the signal date is trading day i-1, before the trade date.
C22_WeeklyTrigger ==
    /\ \A i \in 1 .. bt.done :
          Triggered(i) <=>
              (i > 1 /\ Period(prices[i].date) # Period(prices[i - 1].date))
    /\ \A k \in 1 .. Len(bt.signals) :
          LET i == Loc(prices, bt.signals[k].trade_date)
          IN  /\ i > 1
              /\ bt.signals[k].signal_date = prices[i - 1].date
              /\ bt.signals[k].signal_date < bt.signals[k].trade_date

Ledger == bt.perm.rebalance_records

\* C29: the ledger only grows, by one row per rebalance that is triggered;
\* its trade dates increase strictly and the signal date of a row is the
\* trading day just before its trade date.
C29_LedgerAppendOnly ==
    [][bt' # bt =>
        LET old == bt.perm.rebalance_records
            new == bt'.perm.rebalance_records
            fired == Len(bt'.signals) - Len(bt.signals)
        IN  /\ Len(new) = Len(old) + fired
            /\ fired \in {0, 1}
            /\ SubSeq(new, 1, Len(old)) = old
            /\ \A k \in 1 .. Len(new) :
                  /\ new[k].trade_date = bt'.signals[k].trade_date
                  /\ k > 1 => new[k - 1].trade_date < new[k].trade_date
                  /\ Loc(prices, new[k].trade_date) > 1
                  /\ new[k].signal_date
                        = prices[Loc(prices, new[k].trade_date) - 1].date]_vars

\* A ledger of three rows.
C29_Witness == Len(Ledger) >= 3

\* C30: in every ledger row portfolio_value_post is portfolio_value_pre less
\* estimated_cost, turnover_oneway is half of turnover_abs_weight,
\* gross_trade_value is turnover_abs_weight times portfolio_value_pre, and
\* the equity recorded for the trade date is portfolio_value_post.
C30_CostDeducted ==
    \A k \in 1 .. Len(Ledger) :
        LET r == Ledger[k]
        IN  /\ r.portfolio_value_post = RSub(r.portfolio_value_pre, r.estimated_cost)
            /\ r.turnover_oneway = RDiv(r.turnover_abs_weight, RInt(2))
            /\ r.gross_trade_value = RMul(r.turnover_abs_weight, r.portfolio_value_pre)
            /\ DictHas(bt.perm.equity_by_date, r.trade_date)
            /\ DictGet(bt.perm.equity_by_date, r.trade_date, RZero)
                  = r.portfolio_value_post

\* A rebalance that traded and was charged.
C30_Witness ==
    \E k \in 1 .. Len(Ledger) :
        /\ RLt(RZero, Ledger[k].estimated_cost)
        /\ RLt(RZero, Ledger[k].turnover_abs_weight)
        /\ RLt(Ledger[k].portfolio_value_post, Ledger[k].portfolio_value_pre)

(***************************************************************************)
(* Interleaving claim, checked under SpecRace.                             *)
(***************************************************************************)
FileAsOf(f) == IF f.exists THEN f.account.as_of ELSE None

\* The account files two invocations leave when the second starts after the
\* first has returned, from account file pre and table tbl.
SerialFiles(pre, tbl) ==
    LET First == {run_paper_once(cfg, [absent |-> {}, prices |-> tbl], pre, q)
                    : q \in TieOrders(Len(cfg.equity_etfs))}
        After(r) == IF r.outcome = "advanced"
                    THEN [exists |-> TRUE, account |-> r.run.account] ELSE pre
        Second(f) == {run_paper_once(cfg, [absent |-> {}, prices |-> tbl], f, q)
                        : q \in TieOrders(Len(cfg.equity_etfs))}
    IN  UNION { { IF r2.outcome = "advanced"
                  THEN [exists |-> TRUE, account |-> r2.run.account]
                  ELSE After(r1) : r2 \in Second(After(r1)) } : r1 \in First }

\* C28: as long as the invocations are serialized, every account written
\* has a later as_of than the account it replaces and no trade date is
\* applied twice.  (When two invocations interleave, the account left can
\* be one that no serial execution of the two leaves: C28_Witness.)
C28_SerializedRuns ==
    [][(race'.serial /\ file' # file) =>
          /\ FileAsOf(file) < FileAsOf(file')
          /\ \A k \in 1 .. Len(race.applied) : race.applied[k] # FileAsOf(file')
          /\ race'.applied = Append(race.applied, FileAsOf(file'))]_vars

\* Both invocations read the same account before either wrote it, both
\* applied the same trade date, and the account left is none that the two
\* leave when run one after the other on the same table.
C28_Witness ==
    /\ ~race.serial
    /\ \A w \in Invocations : race.inv[w].pc = "returned"
    /\ Len(race.applied) = 2
    /\ race.applied[1] = race.applied[2]
    /\ race.table = prices
    /\ file \notin SerialFiles(race.pre, prices)


(***************************************************************************)
(* The expired cooldown, checked under SpecGateFair.                       *)
(***************************************************************************)
ExpiredAtEntry == call.prev.state = CIRCUIT_COOLDOWN /\ call.prev.cooldown_left = 0
BelowCircuit == call.made => RLt(call.drawdown, gate.circuit_drawdown)

PersistedGate ==
    IF file.exists THEN file.account.gate ELSE [state |-> NORMAL, cooldown_left |-> 0]
Advances == IF file.exists THEN Len(file.account.history) ELSE 0

C33_CooldownRange ==
    gate.cooldown_weeks >= 0
        => /\ gate.cooldown_left \in Nat
           /\ gate.cooldown_left <= IntMax(gate.cooldown_weeks - 1, 0)
           /\ gate.cooldown_left > 0 => gate.state = CIRCUIT_COOLDOWN
           /\ gate.state \in RiskState

\* The bound is met (a fresh trip with cooldown_weeks = 3) and the countdown
\* has come down from it.
C33_Witness ==
    /\ call.made
    /\ gate.cooldown_weeks = 3
    /\ call.prev.cooldown_left = 2 /\ gate.cooldown_left = 1
    /\ RLt(call.drawdown, gate.derisk_drawdown)


(***************************************************************************)
(* The adjusted target weights, checked under SpecDrift.                   *)
(***************************************************************************)
RECURSIVE WeightSum(_, _)
WeightSum(tw, i) == IF i > Len(tw) THEN RZero ELSE RAdd(tw[i][2], WeightSum(tw, i + 1))
InUnitInterval(w) == RLeq(RZero, w) /\ RLeq(w, ROne)

\* C34: after target_weights and the no-trade band every adjusted target
\* weight lies in [0, 1] and the adjusted weights sum to at most 1.
C34_WeightsWithinWhole ==
    last.outcome = "advanced"
        => /\ \A i \in 1 .. Len(last.run.tw) : InUnitInterval(last.run.tw[i][2])
           /\ RLeq(WeightSum(last.run.tw, 1), ROne)


(***************************************************************************)
(* Holdings without a target, checked under Spec.                          *)
(***************************************************************************)
\* C35: in an advance a symbol held before and absent from the target
\* weights gets a target of 0 shares and is sold in full, whatever the band;
\* after the advance every symbol with a non-zero position is a key of the
\* target weights, and after an advance in CIRCUIT_COOLDOWN the account
\* holds no symbol other than the defensive one.
C35_UntargetedSold ==
    last.outcome = "advanced" =>
        LET run == last.run
            held == last.loaded.positions
            after == run.account.positions
        IN  /\ \A i \in 1 .. Len(held) :
                  ~DictHas(run.tw, held[i][1])
                     => /\ DictGet(run.target_shares, held[i][1], -1) = 0
                        /\ ~DictHas(after, held[i][1])
            /\ \A i \in 1 .. Len(after) :
                  after[i][2] # 0 => DictHas(run.tw, after[i][1])
            /\ run.state = CIRCUIT_COOLDOWN
                  => \A i \in 1 .. Len(after) : after[i][1] = cfg.defensive_etf

\* A trip with an equity symbol in the account: it is sold in full.
C35_Witness ==
    /\ last.outcome = "advanced"
    /\ last.run.state = CIRCUIT_COOLDOWN /\ last.run.changed
    /\ \E i \in 1 .. Len(last.loaded.positions) :
          /\ last.loaded.positions[i][1] \in EquitySymbols
          /\ last.loaded.positions[i][2] > 0
    /\ file.account.positions # <<>>


(***************************************************************************)
(* Value and costs of an advance, checked under Spec.                      *)
(***************************************************************************)
HoldingsAt(positions, close) ==
    RSum([i \in 1 .. Len(positions) |-> RInt(positions[i][2] * close[positions[i][1]])], 1)
ExecutedCosts(trades) ==
    RSum([k \in 1 .. Len(trades) |->
            IF trades[k].action \in {"SELL", "BUY"} THEN trades[k].cost ELSE RZero], 1)

\* C36: in an advance the pre-trade value is the cash plus the shares held at
\* the trade-date close, and the value of the saved account at the same
\* closes is the pre-trade value less the estimated costs of the executed
\* sells and buys.
C36_ValueConserved ==
    last.outcome = "advanced" =>
        LET run == last.run
            close == prices[Loc(prices, run.trade_dt)].close
            post == RAdd(run.account.cash, HoldingsAt(run.account.positions, close))
        IN  /\ run.pre_value
                  = RAdd(last.loaded.cash, HoldingsAt(last.loaded.positions, close))
            /\ post = RSub(run.pre_value, ExecutedCosts(run.trades))
            /\ run.account.history[Len(run.account.history)].equity = post

\* An advance that sold and bought, each at a cost.
C36_Witness ==
    /\ last.outcome = "advanced"
    /\ \E j, k \in 1 .. Len(last.run.trades) :
          /\ last.run.trades[j].action = "SELL" /\ RLt(RZero, last.run.trades[j].cost)
          /\ last.run.trades[k].action = "BUY" /\ RLt(RZero, last.run.trades[k].cost)
    /\ RLt(RZero, ExecutedCosts(last.run.trades))


(***************************************************************************)
(* The drawdown given to the gate, checked under SpecDrivers.              *)
(***************************************************************************)
\* The peak and the signal value of the last paper advance, as lines 135-136
\* leave them.
PaperSignalValue ==
    account_value(last.loaded.cash, last.loaded.positions,
                  prices[Loc(prices, last.run.signal_dt)].close)
PaperPeakUsed ==
    RMax(backfill(last.loaded, prices, last.run.signal_dt).equity_peak, PaperSignalValue)

\* C37: the drawdown given to on_rebalance is never negative in either
\* driver.  Paper: the peak used is at least the signal-date value and the
\* drawdown is 1 - signal value / peak, 0 for a peak that is not positive.
\* Backtest: the peak recorded for every date is at least the equity
\* recorded for it, and no ledger row has a negative drawdown.
C37_DrawdownNotNegative ==
    /\ (BtUnused /\ last.outcome = "advanced")
          => /\ RLeq(RZero, last.run.drawdown)
             /\ RLeq(PaperSignalValue, PaperPeakUsed)
             /\ last.run.drawdown
                   = IF RLt(RZero, PaperPeakUsed)
                     THEN RSub(ROne, RDiv(PaperSignalValue, PaperPeakUsed)) ELSE RZero
    /\ ~BtUnused
          => /\ \A k \in 1 .. Len(bt.perm.rebalance_records) :
                   RLeq(RZero, bt.perm.rebalance_records[k].drawdown)
             /\ \A i \in 1 .. Len(bt.perm.equity_by_date) :
                   LET d == bt.perm.equity_by_date[i][1]
                   IN  /\ DictHas(bt.perm.peak_by_date, d)
                       /\ RLeq(bt.perm.equity_by_date[i][2],
                               DictGet(bt.perm.peak_by_date, d, RZero))

\* A backtest rebalance whose signal date was itself a rebalance day with
\* costs, entered with a positive drawdown.
C37_Witness ==
    /\ ~BtUnused
    /\ \E j, k \in 1 .. Len(bt.perm.rebalance_records) :
          /\ j < k
          /\ bt.perm.rebalance_records[k].signal_date
                = bt.perm.rebalance_records[j].trade_date
          /\ RLt(RZero, bt.perm.rebalance_records[j].estimated_cost)
          /\ RLt(RZero, bt.perm.rebalance_records[k].drawdown)


(***************************************************************************)
(* The recorded peak, checked under SpecBacktest.                          *)
(***************************************************************************)
\* The equity recorded for the dates up to d.
RecordedUpTo(d) ==
    {bt.perm.equity_by_date[i][2] :
        i \in {j \in 1 .. Len(bt.perm.equity_by_date) : bt.perm.equity_by_date[j][1] <= d}}
HighWaterMark(d) == CHOOSE v \in RecordedUpTo(d) : \A u \in RecordedUpTo(d) : RLeq(u, v)

\* C38: the peak recorded for every date is the largest equity recorded
\* (after the costs on a rebalance day) for the dates up to it.
C38_PeakIsHighWaterMark ==
    ~BtUnused =>
        \A i \in 1 .. Len(bt.perm.peak_by_date) :
            bt.perm.peak_by_date[i][2] = HighWaterMark(bt.perm.peak_by_date[i][1])

\* ---------------------------------------------------------------------------
\* The backend task queue (backend/main.py): create_task requests enqueue
\* tasks, the single worker thread of _executor runs _run_task on them.
\* ---------------------------------------------------------------------------

MaxTasks == 3

TaskKinds == {"update-data", "run-backtest", "plan-weekly", "run-paper"}

\* Task(id, kind): status starts "pending".  future is the state of the Future
\* that _executor.submit returned for the task: "PENDING" in the work queue,
\* "RUNNING" while the worker is inside _run_task, "FINISHED" after _run_task
\* returned, "RAISED" after it let an exception out.
Task(id, kind) == [id |-> id, kind |-> kind, status |-> "pending", future |-> "PENDING"]

\* The task ids in use: uuid4 values, stood for by small numbers.
TaskIds(q) == {q.tasks[i].id : i \in 1..Len(q.tasks)} \cup {t.id : t \in q.created}

QueueInit == queue \in {[tasks |-> <<>>, created |-> {}, config_exists |-> c] : c \in BOOLEAN}

InitQueue == GateUnused /\ pol = PolIdle /\ PaperUnused /\ PlanUnused /\ RaceUnused /\ BtUnused /\ QueueInit

\* The index of the task the worker is inside _run_task of, 0 when it is idle.
Working(q) == IF \E i \in 1..Len(q.tasks) : q.tasks[i].future = "RUNNING" THEN CHOOSE i \in 1..Len(q.tasks) : q.tasks[i].future = "RUNNING" ELSE 0

\* The head of the executor's work queue: the first task not yet taken, 0 when
\* the work queue is empty.  submit appends, the worker takes from the front.
WorkQueueHead(q) == IF \E i \in 1..Len(q.tasks) : q.tasks[i].future = "PENDING" THEN CHOOSE i \in 1..Len(q.tasks) : q.tasks[i].future = "PENDING" /\ \A j \in 1..(i - 1) : q.tasks[j].future # "PENDING" ELSE 0

\* create_task(kind) up to the lock of _enqueue: the kind is validated by the
\* route, a fresh id is drawn and the Task object is built.  Any number of
\* requests may be at this point together.
CreateTask ==
    /\ Cardinality(TaskIds(queue)) < MaxTasks
    /\ \E kind \in TaskKinds :
        \E id \in {CHOOSE n \in 1..MaxTasks : n \notin TaskIds(queue)} :
            queue' = [queue EXCEPT !.created = @ \cup {Task(id, kind)}]
    /\ UNCHANGED <<gateVars, pol, paperVars, plan_csv, race, bt>>

\* _enqueue under _tasks_lock: the task is stored in _tasks and submitted to the
\* executor in one critical section.
Enqueue ==
    /\ \E task \in queue.created :
        queue' = [queue EXCEPT !.created = @ \ {task}, !.tasks = Append(@, task)]
    /\ UNCHANGED <<gateVars, pol, paperVars, plan_csv, race, bt>>

\* put_config: a non-empty text that parses as YAML is written to CONFIG_PATH.
PutConfig ==
    /\ ~queue.config_exists
    /\ queue' = [queue EXCEPT !.config_exists = TRUE]
    /\ UNCHANGED <<gateVars, pol, paperVars, plan_csv, race, bt>>

\* The worker takes the head of the work queue and runs _run_task up to the try
\* statement: _load_cfg raises when CONFIG_PATH does not exist, and the
\* exception leaves _run_task before the status is touched; otherwise the
\* status becomes "running".
RunTaskBegin ==
    /\ Working(queue) = 0
    /\ WorkQueueHead(queue) # 0
    /\ \E i \in {WorkQueueHead(queue)} :
        queue' = IF queue.config_exists THEN [queue EXCEPT !.tasks[i].future = "RUNNING", !.tasks[i].status = "running"] ELSE [queue EXCEPT !.tasks[i].future = "RAISED"]
    /\ UNCHANGED <<gateVars, pol, paperVars, plan_csv, race, bt>>

\* The try statement of _run_task: the body of the task's kind returns
\* (status "success") or raises an Exception (status "failed"); the worker is
\* free again.
RunTaskEnd ==
    /\ Working(queue) # 0
    /\ \E i \in {Working(queue)} :
        \E body \in {"returns", "raises"} :
            queue' = [queue EXCEPT !.tasks[i].future = "FINISHED", !.tasks[i].status = IF body = "returns" THEN "success" ELSE "failed"]
    /\ UNCHANGED <<gateVars, pol, paperVars, plan_csv, race, bt>>

NextQueue == CreateTask \/ Enqueue \/ PutConfig \/ RunTaskBegin \/ RunTaskEnd

SpecQueue == InitQueue /\ [][NextQueue]_vars

\* The worker thread keeps taking work while there is some, and the bodies end.
SpecQueueFair == InitQueue /\ [][NextQueue]_vars /\ WF_vars(RunTaskBegin) /\ WF_vars(RunTaskEnd)


TaskCount == Len(queue.tasks)

Running == {i \in 1..TaskCount : queue.tasks[i].status = "running"}

Terminal(i) == i <= TaskCount /\ queue.tasks[i].status \in {"success", "failed"}

\* Tasks are taken by the worker in the order they were submitted, and one is
\* taken only after every earlier one has left _run_task.
StartInSubmissionOrder == \A i, j \in 1..TaskCount : (i < j /\ queue.tasks[j].future # "PENDING") => queue.tasks[i].future \in {"FINISHED", "RAISED"}

StatusMoves == \A i \in 1..TaskCount : queue'.tasks[i].status # queue.tasks[i].status => <<queue.tasks[i].status, queue'.tasks[i].status>> \in {<<"pending", "running">>, <<"running", "success">>, <<"running", "failed">>}

\* The safety half of C39: at most one task is running, tasks start in
\* submission order, no two run-paper tasks are inside their bodies together,
\* and a status only moves pending -> running -> success or failed.
TaskQueueSerializes == [](Cardinality(Running) <= 1 /\ StartInSubmissionOrder /\ Cardinality({i \in Running : queue.tasks[i].kind = "run-paper"}) <= 1) /\ [][StatusMoves]_vars

TaskQueueSerializes_Witness == TaskCount = 3 /\ queue.tasks[1].status \in {"success", "failed"} /\ queue.tasks[2].status = "running" /\ queue.tasks[3].status = "pending" /\ queue.tasks[2].kind = "run-paper" /\ queue.tasks[3].kind = "run-paper"

\* C39: the task queue serializes work (at most one task running, tasks started
\* in submission order, statuses moving only pending -> running -> success or
\* failed, never two run-paper tasks advancing together), and every enqueued
\* task eventually reaches success or failed, its body returning or raising.
C39_TasksSerializedAndFinished == TaskQueueSerializes /\ \A i \in 1..MaxTasks : (i <= TaskCount) ~> Terminal(i)

\* What does hold: a task ends in success or failed unless the exception of
\* _load_cfg left _run_task, and then it is still pending.
FutureOf(i) == IF i <= TaskCount THEN queue.tasks[i].future ELSE "NONE"

StuckPending == \A i \in 1..TaskCount : queue.tasks[i].future = "RAISED" => queue.tasks[i].status = "pending"

LoadedTasksFinish == \A i \in 1..MaxTasks : (i <= TaskCount) ~> (Terminal(i) \/ FutureOf(i) = "RAISED")

=============================================================================
